---- MODULE Spec2Model ----
(***************************************************************************)
(* Model of the signal-detection engine of jejakcuan_ml:                   *)
(*   detection/pump_detector.py  PumpDetector                              *)
(*   patterns/dtw.py             PatternLibrary, DTWPatternMatcher         *)
(*   models/anomaly.py           AnomalyDetector                           *)
(*                                                                         *)
(* Python floats are modelled by exact rationals <<n, d>> (d > 0, lowest   *)
(* terms); np.inf by the value Inf.                                        *)
(***************************************************************************)
EXTENDS Integers, Sequences, FiniteSets, TLC

VARIABLES
    config,              \* PumpDetector thresholds set by __init__
    social_baselines,    \* PumpDetector._social_baselines
    volume_baselines,    \* PumpDetector._volume_baselines
    updates,             \* history: the update_baseline calls made so far
    matcher,             \* DTWPatternMatcher window_sizes, similarity_threshold
    patterns,            \* DTWPatternMatcher.library.patterns
    forest,              \* IsolationForestDetector: _model, _fitted
    call                 \* the call that has just returned (operation, arguments,
                         \* result), or Idle

vars == <<config, social_baselines, volume_baselines, updates, matcher, patterns, forest,
         call>>

otherThanPump == <<matcher, patterns, forest>>

otherThanMatcher == <<config, social_baselines, volume_baselines, updates, forest>>

pumpVars == <<config, social_baselines, volume_baselines, updates>>

\* Python's None; an optional value v is carried as <<v>>
None == <<>>
Some(v) == <<v>>

\* IsolationForestDetector.__init__: _model = None, _fitted = False
NewForest == [model |-> None, fitted |-> FALSE, last_fit |-> "never"]

(***************************************************************************)
(* Exact rational arithmetic standing for Python float arithmetic.         *)
(***************************************************************************)
RECURSIVE Gcd(_, _)
Gcd(a, b) == IF b = 0 THEN a ELSE Gcd(b, a % b)

Abs(x) == IF x < 0 THEN -x ELSE x

\* n / d in lowest terms with a positive denominator (d # 0)
Rat(n, d) ==
    LET g == Gcd(Abs(n), Abs(d))
        s == IF d < 0 THEN -1 ELSE 1
    IN  <<(s * n) \div g, (s * d) \div g>>

RInt(k) == <<k, 1>>

\* least common denominator of two rationals (also when one is Inf = <<1, 0>>)
CommonDen(x, y) ==
    IF x[2] = 0 \/ y[2] = 0 THEN 1 ELSE (x[2] \div Gcd(x[2], y[2])) * y[2]

\* numerator of x over the denominator den (a multiple of x's)
Over(x, den) == x[1] * (den \div x[2])

RAdd(x, y) == Rat(Over(x, CommonDen(x, y)) + Over(y, CommonDen(x, y)), CommonDen(x, y))
RSub(x, y) == Rat(Over(x, CommonDen(x, y)) - Over(y, CommonDen(x, y)), CommonDen(x, y))
\* a / b times c / d, each numerator reduced against the other denominator first
Times(a, b, c, d) ==
    LET g == Gcd(Abs(a), Abs(d))
        h == Gcd(Abs(c), Abs(b))
    IN  Rat((a \div g) * (c \div h), (b \div h) * (d \div g))

RMul(x, y) == Times(x[1], x[2], y[1], y[2])
RDiv(x, y) == Times(x[1], x[2], y[2], y[1])
RLt(x, y) ==
    IF x[2] = 0 \/ y[2] = 0 THEN x[1] * y[2] < y[1] * x[2]
    ELSE Over(x, CommonDen(x, y)) < Over(y, CommonDen(x, y))
RLe(x, y) == ~RLt(y, x)
RMin(x, y) == IF RLt(y, x) THEN y ELSE x
RMax(x, y) == IF RLt(x, y) THEN y ELSE x

(***************************************************************************)
(* detection/pump_detector.py                                              *)
(***************************************************************************)
PUMP_KEYWORDS ==
    { "buruan beli", "cepat beli", "jangan sampai ketinggalan", "last chance",
      "limited time", "hari ini saja", "sekarang atau tidak",
      "pasti naik", "guaranteed", "100% profit", "no risk", "tanpa risiko",
      "insider info", "info dalam", "rahasia", "secret", "belum tersebar",
      "to the moon", "moon", "1000%", "10x", "100x", "terbang", "rocket",
      "mari borong", "ayo beli bareng", "pompa", "pump it" }

LEGITIMATE_KEYWORDS ==
    { "laporan keuangan", "financial report", "earning", "fundamental",
      "dividen", "dividend", "annual report", "quarterly", "analyst" }

\* PumpDetector.__init__ defaults
DefaultConfig ==
    [ social_spike_threshold   |-> RInt(3),
      volume_spike_threshold   |-> RInt(5),
      price_spike_threshold    |-> Rat(15, 100),
      min_confidence_threshold |-> Rat(1, 2),
      new_account_days         |-> 30 ]

\* the detector built by the test-suite's setup_method
TestConfig == [DefaultConfig EXCEPT !.min_confidence_threshold = Rat(3, 10)]

Configs == {DefaultConfig, TestConfig}

\* historical_social or self._social_baselines.get(symbol, 10)
DefaultBaseline == 10

PyOr(opt, other) == IF opt # None /\ opt[1] # 0 THEN opt[1] ELSE other

DictGet(d, k, default) == IF k \in DOMAIN d THEN d[k] ELSE default

BaselineOf(sb, symbol, historical_social) ==
    PyOr(historical_social, DictGet(sb, symbol, DefaultBaseline))

\* [kw for kw in seq if kw in set]
RECURSIVE Filter(_, _)
Filter(seq, set) ==
    IF seq = <<>> THEN <<>>
    ELSE (IF Head(seq) \in set THEN <<Head(seq)>> ELSE <<>>) \o Filter(Tail(seq), set)

Signal(type, conf) == [signal_type |-> type, confidence |-> conf]

\* Signal 1: social media spike (raises ZeroDivisionError when baseline = 0)
SocialFires(cfg, social, baseline) ==
    RLt(RMul(RInt(baseline), cfg.social_spike_threshold), RInt(social.post_count))

SocialConfidence(social, baseline) ==
    RMin(RDiv(RSub(Rat(social.post_count, baseline), RInt(1)), RInt(5)), RInt(1))

\* Signal 2: volume spike
VolumeFires(cfg, market) == RLe(cfg.volume_spike_threshold, market.volume_ratio)

\* mutant: the ratio is not reduced by one before it is scaled
VolumeConfidenceNoOffset(market) == RMin(RDiv(market.volume_ratio, RInt(10)), RInt(1))

VolumeConfidence(market) ==
    RMin(RDiv(RSub(market.volume_ratio, RInt(1)), RInt(10)), RInt(1))

\* Signal 3: price spike
PriceFires(cfg, market) == RLe(cfg.price_spike_threshold, market.price_change_pct)

PriceConfidence(market) == RMin(RDiv(market.price_change_pct, Rat(3, 10)), RInt(1))

\* Signal 4: new accounts activity
NewAccountsFires(cfg, social) == social.avg_author_age_days < cfg.new_account_days

NewAccountsConfidence(cfg, social) ==
    RSub(RInt(1), Rat(social.avg_author_age_days, cfg.new_account_days))

\* Signal 5: pump keywords
KeywordHits(social) == Filter(social.keyword_flags, PUMP_KEYWORDS)

KeywordConfidence(social) == RMin(Rat(Len(KeywordHits(social)), 5), RInt(1))

\* Signal 6: low unique authors (coordinated)
CoordinatedFires(social) ==
    /\ social.unique_authors > 0
    /\ RLt(RInt(3), Rat(social.post_count, social.unique_authors))

CoordinatedConfidence(social) ==
    RMin(RDiv(RSub(Rat(social.post_count, social.unique_authors), RInt(3)), RInt(7)),
         RInt(1))

\* the signals list built by analyze, in append order
Signals(cfg, social, market, baseline) ==
    (IF SocialFires(cfg, social, baseline)
       THEN <<Signal("social_spike", SocialConfidence(social, baseline))>> ELSE <<>>)
    \o (IF VolumeFires(cfg, market)
       THEN <<Signal("volume_spike", VolumeConfidence(market))>> ELSE <<>>)
    \o (IF PriceFires(cfg, market)
       THEN <<Signal("price_spike", PriceConfidence(market))>> ELSE <<>>)
    \o (IF NewAccountsFires(cfg, social)
       THEN <<Signal("new_accounts", NewAccountsConfidence(cfg, social))>> ELSE <<>>)
    \o (IF KeywordHits(social) # <<>>
       THEN <<Signal("keyword_pattern", KeywordConfidence(social))>> ELSE <<>>)
    \o (IF CoordinatedFires(social)
       THEN <<Signal("coordinated_posts", CoordinatedConfidence(social))>> ELSE <<>>)

\* weights.get(s.signal_type, 0.1)
Weight(type) ==
    CASE type = "social_spike"      -> Rat(20, 100)
      [] type = "volume_spike"      -> Rat(25, 100)
      [] type = "price_spike"       -> Rat(20, 100)
      [] type = "new_accounts"      -> Rat(10, 100)
      [] type = "keyword_pattern"   -> Rat(15, 100)
      [] type = "coordinated_posts" -> Rat(10, 100)
      [] OTHER                      -> Rat(10, 100)

\* mutant: the sum is divided by the weight of the whole table
TotalWeightOfTable(signals) == RInt(1)

\* total_weight = sum(weights.get(s.signal_type, 0.1) for s in signals)
RECURSIVE TotalWeight(_)
TotalWeight(signals) ==
    IF signals = <<>> THEN RInt(0)
    ELSE RAdd(Weight(Head(signals).signal_type), TotalWeight(Tail(signals)))

\* mutant: the confidences are summed without their weights
RECURSIVE WeightedSumUnweighted(_)
WeightedSumUnweighted(signals) ==
    IF signals = <<>> THEN RInt(0)
    ELSE RAdd(Head(signals).confidence, WeightedSumUnweighted(Tail(signals)))

RECURSIVE WeightedSum(_)
WeightedSum(signals) ==
    IF signals = <<>> THEN RInt(0)
    ELSE RAdd(RMul(Head(signals).confidence, Weight(Head(signals).signal_type)),
              WeightedSum(Tail(signals)))

\* mutant: the dampening is applied once per legitimate keyword
RECURSIVE LegitimateFactorPerKeyword(_)
LegitimateFactorPerKeyword(legitimate_count) ==
    IF legitimate_count <= 0 THEN RInt(1)
    ELSE RMul(Rat(7, 10), LegitimateFactorPerKeyword(legitimate_count - 1))

\* weighted_confidence *= 0.7
LegitimateFactor(legitimate_count) == IF legitimate_count > 0 THEN Rat(7, 10) ELSE RInt(1)

LegitimateCount(social) == Len(Filter(social.keyword_flags, LEGITIMATE_KEYWORDS))

WeightedConfidence(signals, social) ==
    RMul(RDiv(WeightedSum(signals), TotalWeight(signals)),
         LegitimateFactor(LegitimateCount(social)))

DetermineSeverity(confidence) ==
    IF RLe(Rat(9, 10), confidence) THEN "critical"
    ELSE IF RLe(Rat(75, 100), confidence) THEN "high"
    ELSE IF RLe(Rat(6, 10), confidence) THEN "medium"
    ELSE "low"

\* the actions table of _get_recommended_action
Actions ==
    [critical |-> "Avoid trading. Report to authorities if applicable.",
     high |-> "Avoid buying. Wait for activity to normalize.",
     medium |-> "Exercise caution. Do additional research.",
     low |-> "Monitor situation. Normal trading with awareness."]

\* mutant: a high alert gets the advice of a medium one
GetRecommendedActionSoft(severity) ==
    IF severity = "high" THEN Actions["medium"]
    ELSE IF severity \in DOMAIN Actions THEN Actions[severity] ELSE "Monitor closely"

\* PumpDetector._get_recommended_action: actions.get(severity, "Monitor closely")
GetRecommendedAction(severity) ==
    IF severity \in DOMAIN Actions THEN Actions[severity] ELSE "Monitor closely"

\* the division at line 187 (baseline = 0) or at line 220 (new_account_days = 0)
AnalyzeRaises(cfg, social, baseline) ==
    \/ SocialFires(cfg, social, baseline) /\ baseline = 0
    \/ NewAccountsFires(cfg, social) /\ cfg.new_account_days = 0

\* how the evidence string of a signal of each type begins; the rest of the
\* string is the formatted value the signal was computed from
EvidenceWording(type) ==
    CASE type = "social_spike"      -> "Social mentions"
      [] type = "volume_spike"      -> "Volume"
      [] type = "price_spike"       -> "Price up"
      [] type = "new_accounts"      -> "Avg account age"
      [] type = "keyword_pattern"   -> "Pump keywords"
      [] type = "coordinated_posts" -> "Avg posts per author"

Evidence(s) == EvidenceWording(s.signal_type)

\* signals[:3]
FirstThree(signals) == SubSeq(signals, 1, IF Len(signals) < 3 THEN Len(signals) ELSE 3)

\* PumpDetector._generate_message: the parts the message is formatted from, the
\* summaries being joined with "; "
GenerateMessage(symbol, signals, severity) ==
    [symbol |-> symbol, severity |-> severity,
     summaries |-> [k \in 1..Len(FirstThree(signals)) |-> Evidence(FirstThree(signals)[k])]]

\* PumpDetector.analyze from line 181 on: what the call evaluates and returns
\* once it has read its baseline
AnalyzeFrom(cfg, social, market, baseline) ==
        IF AnalyzeRaises(cfg, social, baseline)
        THEN [raised |-> TRUE, baseline |-> baseline, signals |-> <<>>,
              weighted_confidence |-> None, alert |-> None]
        ELSE
        LET signals == Signals(cfg, social, market, baseline)
        IN  IF signals = <<>>
            THEN [raised |-> FALSE, baseline |-> baseline, signals |-> signals,
                  weighted_confidence |-> None, alert |-> None]
            ELSE
            LET wc == WeightedConfidence(signals, social)
            IN  [raised |-> FALSE, baseline |-> baseline, signals |-> signals,
                 weighted_confidence |-> Some(wc),
                 alert |-> IF RLt(wc, cfg.min_confidence_threshold) THEN None
                           ELSE Some([symbol |-> social.symbol,
                                      severity |-> DetermineSeverity(wc),
                                      confidence |-> wc,
                                      signals |-> signals,
                                      message |->
                                          GenerateMessage(social.symbol, signals,
                                                          DetermineSeverity(wc)),
                                      recommended_action |->
                                          GetRecommendedAction(DetermineSeverity(wc))])]

\* PumpDetector.analyze: what the call evaluates and returns
AnalyzeResult(cfg, sb, social, market, historical_social) ==
    AnalyzeFrom(cfg, social, market, BaselineOf(sb, social.symbol, historical_social))

(***************************************************************************)
(* patterns/dtw.py: DTWPatternMatcher.dtw_distance                         *)
(***************************************************************************)
\* np.inf
Inf == <<1, 0>>

\* cost + x for a finite cost, where x may be np.inf
InfAdd(cost, x) == IF x = Inf THEN Inf ELSE RAdd(cost, x)

RAbs(x) == <<Abs(x[1]), x[2]>>

\* Python truthiness of `window`: None and 0 both mean "no constraint"
Truthy(window) == window # None /\ window[1] # 0

IntMin(a, b) == IF a < b THEN a ELSE b
IntMax(a, b) == IF a > b THEN a ELSE b

\* j_start = max(1, i - window) if window else 1
JStart(i, window) == IF Truthy(window) THEN IntMax(1, i - window[1]) ELSE 1

\* mutant: the band's upper end is one cell short
JEndShort(i, m, window) == IF Truthy(window) THEN IntMin(m + 1, i + window[1]) ELSE m + 1

\* j_end = min(m + 1, i + window + 1) if window else m + 1
JEnd(i, m, window) == IF Truthy(window) THEN IntMin(m + 1, i + window[1] + 1) ELSE m + 1

\* mutant: the diagonal (match) predecessor is left out
MinPredecessorNoMatch(insertion, deletion, match) == RMin(insertion, deletion)

\* min(dtw[i-1, j], dtw[i, j-1], dtw[i-1, j-1])
MinPredecessor(insertion, deletion, match) == RMin(RMin(insertion, deletion), match)

\* row 0 of the cost matrix: dtw[0, 0] = 0, the rest np.inf
FirstRow(m) == [j \in 0..m |-> IF j = 0 THEN RInt(0) ELSE Inf]

\* the inner loop: cells j .. j_end - 1 of row i, left to right (the test on
\* row[j] is always true: it has the cell computed before the loop goes on)
RECURSIVE FillRow(_, _, _, _, _, _, _)
FillRow(seq1, seq2, i, j, j_end, prev, cur) ==
    IF j >= j_end THEN cur
    ELSE LET cost == RAbs(RSub(seq1[i], seq2[j]))
             cell == InfAdd(cost, MinPredecessor(prev[j], cur[j - 1], prev[j - 1]))
             row == [cur EXCEPT ![j] = cell]
         IN  IF row[j] = cell THEN FillRow(seq1, seq2, i, j + 1, j_end, prev, row)
             ELSE row

\* the outer loop: rows i .. n; yields row n (column 0 of every row after the
\* first stays at np.inf)
RECURSIVE FillMatrix(_, _, _, _, _)
FillMatrix(seq1, seq2, window, i, prev) ==
    IF i > Len(seq1) THEN prev
    ELSE LET m == Len(seq2)
             blank == [j \in 0..m |-> Inf]
             row == FillRow(seq1, seq2, i, JStart(i, window), JEnd(i, m, window),
                            prev, blank)
         IN  IF row[0] = Inf THEN FillMatrix(seq1, seq2, window, i + 1, row)
             ELSE row

\* DTWPatternMatcher.dtw_distance(seq1, seq2, window): dtw[n, m]
DtwDistance(seq1, seq2, window) ==
    FillMatrix(seq1, seq2, window, 1, FirstRow(Len(seq2)))[Len(seq2)]

(***************************************************************************)
(* patterns/dtw.py: PatternLibrary                                         *)
(***************************************************************************)
Hundredths(ns) == [i \in DOMAIN ns |-> Rat(ns[i], 100)]

\* 1.0 - template
OneMinus(template) == [i \in DOMAIN template |-> RSub(RInt(1), template[i])]

Pattern(name, pattern_type, template, expected_outcome, description) ==
    [ name |-> name, pattern_type |-> pattern_type, template |-> template,
      expected_outcome |-> expected_outcome, description |-> description ]

double_bottom ==
    Hundredths(<<100, 90, 80, 70, 50, 30, 10, 0, 20, 40, 50, 40, 20, 0, 10, 30, 50,
                 70, 90, 100>>)

double_top ==
    Hundredths(<<0, 10, 20, 30, 50, 70, 90, 100, 80, 60, 50, 60, 80, 100, 90, 70, 50,
                 30, 10, 0>>)

head_shoulders ==
    Hundredths(<<0, 20, 40, 60, 50, 30, 50, 70, 90, 100, 90, 70, 50, 30, 50, 60, 40,
                 20, 0>>)

inv_head_shoulders == OneMinus(head_shoulders)

cup_handle ==
    Hundredths(<<100, 90, 70, 50, 30, 10, 0, 10, 30, 50, 70, 90, 100, 95, 90, 95, 100>>)

ascending ==
    Hundredths(<<0, 20, 50, 40, 30, 60, 50, 40, 70, 60, 50, 80, 70, 60, 90, 80, 70, 100>>)

descending == OneMinus(ascending)

accumulation ==
    Hundredths(<<50, 55, 45, 52, 48, 53, 47, 54, 46, 55, 45, 56, 44, 57, 43, 58, 60,
                 70, 80>>)

\* PatternLibrary._load_common_patterns: the seed set, in append order
CommonPatterns ==
    << Pattern("Double Bottom", "double_bottom", double_bottom, "bullish",
               "W-shaped reversal pattern indicating potential uptrend"),
       Pattern("Double Top", "double_top", double_top, "bearish",
               "M-shaped reversal pattern indicating potential downtrend"),
       Pattern("Head and Shoulders", "head_and_shoulders", head_shoulders, "bearish",
               "Three-peak pattern with higher middle peak"),
       Pattern("Inverse Head and Shoulders", "inverse_head_and_shoulders",
               inv_head_shoulders, "bullish",
               "Three-trough pattern with lower middle trough"),
       Pattern("Cup and Handle", "cup_and_handle", cup_handle, "bullish",
               "U-shaped pattern with small consolidation handle"),
       Pattern("Ascending Triangle", "ascending_triangle", ascending, "bullish",
               "Higher lows with flat resistance"),
       Pattern("Descending Triangle", "descending_triangle", descending, "bearish",
               "Lower highs with flat support"),
       Pattern("Accumulation", "accumulation", accumulation, "bullish",
               "Range-bound trading followed by breakout") >>

(***************************************************************************)
(* patterns/dtw.py: DTWPatternMatcher                                      *)
(***************************************************************************)
RECURSIVE SeqMin(_)
SeqMin(seq) ==
    IF Len(seq) = 1 THEN seq[1] ELSE RMin(seq[1], SeqMin(Tail(seq)))

RECURSIVE SeqMax(_)
SeqMax(seq) ==
    IF Len(seq) = 1 THEN seq[1] ELSE RMax(seq[1], SeqMax(Tail(seq)))

\* x < 1e-10; every value of the model is a multiple of a fraction far coarser
\* than 1e-10, so a difference is below it exactly when it is not positive
BelowEpsilon(x) == x[1] <= 0

\* mutant: the sequence is divided by its maximum without removing its minimum
NormalizeByMax(seq) ==
    LET max_val == SeqMax(seq)
    IN  IF BelowEpsilon(max_val) THEN [i \in DOMAIN seq |-> RInt(0)]
        ELSE [i \in DOMAIN seq |-> RDiv(seq[i], max_val)]

\* DTWPatternMatcher.normalize_sequence
NormalizeSequence(seq) ==
    LET min_val == SeqMin(seq)
        max_val == SeqMax(seq)
    IN  IF BelowEpsilon(RSub(max_val, min_val)) THEN [i \in DOMAIN seq |-> RInt(0)]
        ELSE [i \in DOMAIN seq |->
                 RDiv(RSub(seq[i], min_val), RSub(max_val, min_val))]

\* np.linspace(0, 1, num)[k - 1]
Linspace(num, k) == IF num = 1 THEN RInt(0) ELSE Rat(k - 1, num - 1)

\* np.interp(x, np.linspace(0, 1, len(fp)), fp) for 0 <= x <= 1
Interp(x, fp) ==
    LET n == Len(fp)
        t == RMul(x, RInt(n - 1))
        j == t[1] \div t[2]
    IN  IF n = 1 \/ j >= n - 1 THEN fp[n]
        ELSE RAdd(fp[j + 1], RMul(RSub(t, RInt(j)), RSub(fp[j + 2], fp[j + 1])))

\* the template resampled to window_size points
Resample(template, window_size) ==
    [k \in 1..window_size |-> Interp(Linspace(window_size, k), template)]

\* mutant: the window slides one point at a time
StrideOfOne(window_size) == 1

\* stride = max(1, window_size // 4)
Stride(window_size) == IntMax(1, window_size \div 4)

\* similarity = max(0, 1 - distance / max_distance), max_distance = window_size * 2
Similarity(distance, window_size) ==
    IF distance = Inf THEN RInt(0)
    ELSE RMax(RInt(0), RSub(RInt(1), RDiv(distance, RInt(window_size * 2))))

PatternMatch(pattern, similarity, start_idx, end_idx, distance) ==
    [ pattern_type |-> pattern.pattern_type, similarity |-> similarity,
      start_idx |-> start_idx, end_idx |-> end_idx, dtw_distance |-> distance,
      description |-> pattern.description,
      expected_outcome |-> pattern.expected_outcome ]

\* mutant: the window is compared with the template without being normalised
RECURSIVE SlideWindowUnnormalized(_, _, _, _, _, _)
SlideWindowUnnormalized(prices, pattern, resampled, window_size, threshold, i) ==
    IF i > Len(prices) - window_size THEN <<>>
    ELSE LET window == SubSeq(prices, i + 1, i + window_size)
             distance == DtwDistance(window, resampled, Some(window_size \div 4))
             similarity == Similarity(distance, window_size)
         IN  (IF RLe(threshold, similarity)
                THEN <<PatternMatch(pattern, similarity, i, i + window_size, distance)>>
                ELSE <<>>)
             \o SlideWindowUnnormalized(prices, pattern, resampled, window_size,
                                        threshold, i + Stride(window_size))

\* the sliding-window loop of _find_pattern_in_window, from offset i on
RECURSIVE SlideWindow(_, _, _, _, _, _)
SlideWindow(prices, pattern, resampled, window_size, threshold, i) ==
    IF i > Len(prices) - window_size THEN <<>>
    ELSE LET window == SubSeq(prices, i + 1, i + window_size)
             normalized == NormalizeSequence(window)
             distance == DtwDistance(normalized, resampled, Some(window_size \div 4))
             similarity == Similarity(distance, window_size)
         IN  (IF RLe(threshold, similarity)
                THEN <<PatternMatch(pattern, similarity, i, i + window_size, distance)>>
                ELSE <<>>)
             \o SlideWindow(prices, pattern, resampled, window_size, threshold,
                            i + Stride(window_size))

\* DTWPatternMatcher._find_pattern_in_window
FindPatternInWindow(prices, pattern, window_size, threshold) ==
    SlideWindow(prices, pattern, Resample(pattern.template, window_size), window_size,
                threshold, 0)

\* mutant: ascending order of similarity
InsertAscending(sorted, match) ==
    LET before == {k \in 1..Len(sorted) :
                      RLe(sorted[k].similarity, match.similarity)}
        p == Cardinality(before)
    IN  SubSeq(sorted, 1, p) \o <<match>> \o SubSeq(sorted, p + 1, Len(sorted))

\* stable insertion into a list in descending order: match goes after every
\* element of similarity >= its own
InsertDescending(sorted, match) ==
    LET before == {k \in 1..Len(sorted) :
                      RLe(match.similarity, sorted[k].similarity)}
        p == Cardinality(before)
    IN  SubSeq(sorted, 1, p) \o <<match>> \o SubSeq(sorted, p + 1, Len(sorted))

\* the matches from the i-th on inserted, in their order, into sorted
RECURSIVE SortFrom(_, _, _)
SortFrom(matches, i, sorted) ==
    IF i > Len(matches) THEN sorted
    ELSE LET next == InsertDescending(sorted, matches[i])
         IN  IF Len(next) = Len(sorted) + 1 THEN SortFrom(matches, i + 1, next)
             ELSE next

\* mutant: matches of equal similarity come out in the reverse of their order
SortBySimilarityTiesReversed(matches) ==
    SortFrom([k \in 1..Len(matches) |-> matches[Len(matches) + 1 - k]], 1, <<>>)

\* sorted(matches, key=lambda m: m.similarity, reverse=True)
SortBySimilarity(matches) == SortFrom(matches, 1, <<>>)

\* mutant: the overlap is measured against the span of the used range
OverlapsUsedOfOther(match, used_ranges) ==
    \E k \in 1..Len(used_ranges) :
        LET start == used_ranges[k][1]
            end == used_ranges[k][2]
        IN  /\ ~(match.end_idx <= start \/ match.start_idx >= end)
            /\ RLt(Rat(1, 2),
                   Rat(IntMin(match.end_idx, end) - IntMax(match.start_idx, start),
                       end - start))

\* the inner loop over used_ranges: some used range overlaps more than 50% of
\* the match's own span
OverlapsUsed(match, used_ranges) ==
    \E k \in 1..Len(used_ranges) :
        LET start == used_ranges[k][1]
            end == used_ranges[k][2]
        IN  /\ ~(match.end_idx <= start \/ match.start_idx >= end)
            /\ RLt(Rat(1, 2),
                   Rat(IntMin(match.end_idx, end) - IntMax(match.start_idx, start),
                       match.end_idx - match.start_idx))

\* the greedy loop over the sorted matches
RECURSIVE Greedy(_, _, _)
Greedy(sorted, deduplicated, used_ranges) ==
    IF sorted = <<>> THEN deduplicated
    ELSE LET match == Head(sorted)
             kept == Append(deduplicated, match)
             used == Append(used_ranges, <<match.start_idx, match.end_idx>>)
         IN  IF OverlapsUsed(match, used_ranges)
             THEN Greedy(Tail(sorted), deduplicated, used_ranges)
             ELSE IF Len(kept) = Len(used) THEN Greedy(Tail(sorted), kept, used)
             ELSE kept

\* DTWPatternMatcher._deduplicate_matches
DeduplicateMatches(matches) ==
    IF matches = <<>> THEN <<>> ELSE Greedy(SortBySimilarity(matches), <<>>, <<>>)

\* the loop over the patterns for one window size
RECURSIVE MatchesOfPatterns(_, _, _, _)
MatchesOfPatterns(prices, pats, window_size, threshold) ==
    IF pats = <<>> THEN <<>>
    ELSE FindPatternInWindow(prices, Head(pats), window_size, threshold)
         \o MatchesOfPatterns(prices, Tail(pats), window_size, threshold)

\* the loop over self.window_sizes
RECURSIVE MatchesOfWindows(_, _, _, _)
MatchesOfWindows(prices, pats, window_sizes, threshold) ==
    IF window_sizes = <<>> THEN <<>>
    ELSE (IF Len(prices) < Head(window_sizes) THEN <<>>
          ELSE MatchesOfPatterns(prices, pats, Head(window_sizes), threshold))
         \o MatchesOfWindows(prices, pats, Tail(window_sizes), threshold)

\* if patterns is None: patterns = self.library.patterns
PatternsToSearch(patterns_arg, library) ==
    IF patterns_arg = None THEN library ELSE patterns_arg[1]

\* DTWPatternMatcher.find_patterns
FindPatternsResult(m, library, prices, patterns_arg) ==
    DeduplicateMatches(
        MatchesOfWindows(prices, PatternsToSearch(patterns_arg, library),
                         m.window_sizes, m.similarity_threshold))

\* DTWPatternMatcher.create_custom_pattern: the pattern it returns
CustomPattern(name, template_prices, expected_outcome, description) ==
    Pattern(name, "custom", NormalizeSequence(template_prices), expected_outcome,
            IF description = "" THEN "Custom pattern: " \o name ELSE description)

(***************************************************************************)
(* Inputs of the PumpDetector operations.                                  *)
(***************************************************************************)
MaxFlags == 2      \* longest keyword_flags list
MaxUpdates == 2    \* update_baseline calls recorded in the history

Symbols == {"BBCA", "TLKM"}
PostCounts == {0, 50, 100}
UniqueAuthors == {0, 10}
AuthorAges == {5, 180}
FlagWords == {"moon", "dividen", "bullish"}
PriceChanges == {Rat(5, 100), Rat(25, 100)}
VolumeRatios == {Rat(11, 10), RInt(10)}
HistoricalSocials == {None, Some(0), Some(20)}
SocialAvgs == {0, 20}

SeqsUpTo(S, n) == UNION {[1..k -> S] : k \in 0..n}

SocialInputs ==
    [ symbol : Symbols, post_count : PostCounts, unique_authors : UniqueAuthors,
      avg_author_age_days : AuthorAges, keyword_flags : SeqsUpTo(FlagWords, MaxFlags) ]

MarketInputs == [ price_change_pct : PriceChanges, volume_ratio : VolumeRatios ]

\* a quiet snapshot: only the social-spike signal can fire
QuietSocialInputs ==
    [ symbol : Symbols, post_count : PostCounts, unique_authors : {0},
      avg_author_age_days : {180}, keyword_flags : {<<>>} ]

QuietMarketInputs == [ price_change_pct : {Rat(5, 100)}, volume_ratio : {Rat(11, 10)} ]

Idle == [op |-> "idle"]

PumpInit ==
    /\ config \in Configs
    /\ social_baselines = <<>>
    /\ volume_baselines = <<>>
    /\ updates = <<>>

\* PumpDetector.analyze(social, market, historical_social)
Analyze(social, market, historical_social) ==
    /\ call = Idle
    /\ call' = [op |-> "analyze", social |-> social, market |-> market,
                historical_social |-> historical_social,
                result |-> AnalyzeResult(config, social_baselines, social, market,
                                         historical_social)]
    /\ UNCHANGED <<config, social_baselines, volume_baselines, updates>>
    /\ UNCHANGED otherThanPump

\* mutant: an existing entry is averaged with the new value
DictSmooth(d, k, v) ==
    [x \in DOMAIN d \cup {k} |->
        IF x = k THEN (IF k \in DOMAIN d THEN (d[k] + v) \div 2 ELSE v) ELSE d[x]]

\* the dict store d[k] = v
DictSet(d, k, v) == [x \in DOMAIN d \cup {k} |-> IF x = k THEN v ELSE d[x]]

\* mutant: the two dictionaries are replaced by ones holding the new entry only
UpdateBaselineFresh(symbol, social_avg, volume_avg) ==
    /\ call = Idle
    /\ social_baselines' = DictSet(<<>>, symbol, social_avg)
    /\ volume_baselines' = DictSet(<<>>, symbol, volume_avg)
    /\ UNCHANGED <<config, call>>
    /\ UNCHANGED otherThanPump

\* PumpDetector.update_baseline(symbol, social_avg, volume_avg)
UpdateBaseline(symbol, social_avg, volume_avg) ==
    /\ call = Idle
    /\ social_baselines' = DictSet(social_baselines, symbol, social_avg)
    /\ volume_baselines' = DictSet(volume_baselines, symbol, volume_avg)
    /\ UNCHANGED <<config, call>>
    /\ UNCHANGED otherThanPump

\* history of the update_baseline calls (not program state)
RecordUpdate(symbol, social_avg, volume_avg) ==
    /\ Len(updates) < MaxUpdates
    /\ updates' = Append(updates, [symbol |-> symbol, social_avg |-> social_avg,
                                    volume_avg |-> volume_avg])

\* the caller takes the result of the call
Return ==
    /\ call # Idle
    /\ call' = Idle
    /\ UNCHANGED <<config, social_baselines, volume_baselines, updates>>
    /\ UNCHANGED otherThanPump

\* calls are made one at a time: the next one starts when the last has returned
PumpNext ==
    \/ /\ call = Idle
       /\ \E social \in SocialInputs, market \in MarketInputs,
             historical_social \in HistoricalSocials :
               Analyze(social, market, historical_social)
    \/ /\ call = Idle
       /\ \E symbol \in Symbols, social_avg \in SocialAvgs :
               /\ UpdateBaseline(symbol, social_avg, social_avg * 100)
               /\ UNCHANGED updates
    \/ Return

\* the same detector with its update_baseline calls recorded
BaselineNext ==
    \/ /\ call = Idle
       /\ \E social \in QuietSocialInputs, market \in QuietMarketInputs,
             historical_social \in HistoricalSocials :
               Analyze(social, market, historical_social)
    \/ /\ call = Idle
       /\ \E symbol \in Symbols, social_avg \in SocialAvgs :
               /\ UpdateBaseline(symbol, social_avg, social_avg * 100)
               /\ RecordUpdate(symbol, social_avg, social_avg * 100)
    \/ Return

(***************************************************************************)
(* A PumpDetector constructed with thresholds below 1.                     *)
(***************************************************************************)
\* PumpDetector(social_spike_threshold=0.5, volume_spike_threshold=0.5)
LowThresholdConfig ==
    [DefaultConfig EXCEPT !.social_spike_threshold = Rat(1, 2),
                          !.volume_spike_threshold = Rat(1, 2)]

ThresholdConfigs == {DefaultConfig, LowThresholdConfig}

ThresholdSocialInputs ==
    [ symbol : Symbols, post_count : {0, 6, 50}, unique_authors : UniqueAuthors,
      avg_author_age_days : AuthorAges, keyword_flags : {<<>>, <<"moon">>} ]

ThresholdMarketInputs ==
    [ price_change_pct : PriceChanges, volume_ratio : {Rat(1, 2), RInt(20)} ]

ThresholdInit ==
    /\ config \in ThresholdConfigs
    /\ social_baselines = <<>>
    /\ volume_baselines = <<>>
    /\ updates = <<>>
    /\ matcher = None
    /\ patterns = <<>>
    /\ forest = NewForest
    /\ call = Idle

ThresholdNext ==
    \/ /\ call = Idle
       /\ \E social \in ThresholdSocialInputs, market \in ThresholdMarketInputs,
             historical_social \in {None, Some(20)} :
               Analyze(social, market, historical_social)
    \/ /\ call = Idle
       /\ \E symbol \in Symbols, social_avg \in SocialAvgs :
               /\ UpdateBaseline(symbol, social_avg, social_avg * 100)
               /\ UNCHANGED updates
    \/ Return

(***************************************************************************)
(* PumpDetector.check_text_for_pump.  A text is a string; TLC reads a      *)
(* string as the sequence of its characters.                               *)
(***************************************************************************)
MaxFragments == 3  \* a text is made of at most this many fragments

\* pieces of messages: keywords in several cases, parts of keywords, other words
Fragments ==
    {"to the moon", "MOON", "mo", "on", "Rocket ", "Pasti Naik!"}

RECURSIVE Concat(_)
Concat(seq) == IF seq = <<>> THEN "" ELSE Head(seq) \o Concat(Tail(seq))

Texts == {Concat(seq) : seq \in SeqsUpTo(Fragments, MaxFragments)}

\* str.lower on one character (ASCII letters; the other characters of the
\* fragments have no case)
LowerTable ==
    [ A |-> "a", B |-> "b", C |-> "c", D |-> "d", E |-> "e", F |-> "f",
      G |-> "g", H |-> "h", I |-> "i", J |-> "j", K |-> "k", L |-> "l",
      M |-> "m", N |-> "n", O |-> "o", P |-> "p", Q |-> "q", R |-> "r",
      S |-> "s", T |-> "t", U |-> "u", V |-> "v", W |-> "w", X |-> "x",
      Y |-> "y", Z |-> "z" ]

LowerChar(c) == IF c \in DOMAIN LowerTable THEN LowerTable[c] ELSE c

\* mutant: the text is searched as it is written
KeepCase(text) == text

\* text.lower()
RECURSIVE Lower(_)
Lower(text) ==
    IF Len(text) = 0 THEN ""
    ELSE LowerChar(SubSeq(text, 1, 1)) \o Lower(SubSeq(text, 2, Len(text)))

\* kw in text
Contains(text, kw) ==
    \E i \in 1..(Len(text) - Len(kw) + 1) : SubSeq(text, i, i + Len(kw) - 1) = kw

\* the keywords of the comprehension at line 356, as a set
MatchedKeywords(text) ==
    LET text_lower == Lower(text)
    IN  {kw \in PUMP_KEYWORDS : Contains(text_lower, kw)}

\* the lists a set can be iterated into: PUMP_KEYWORDS is a Python set, whose
\* iteration order depends on the hash seed of the process
Orderings(S) ==
    {order \in [1..Cardinality(S) -> S] :
        \A i, j \in 1..Cardinality(S) : order[i] = order[j] => i = j}

\* PumpDetector.check_text_for_pump(text); matched is the comprehension's list
CheckTextForPump(text, matched) ==
    /\ call = Idle
    /\ call' = [op |-> "check_text_for_pump", text |-> text,
                result |-> <<Len(matched) >= 2, matched>>]
    /\ UNCHANGED pumpVars
    /\ UNCHANGED otherThanPump

TextNext ==
    \/ /\ call = Idle
       /\ \E text \in Texts : \E matched \in Orderings(MatchedKeywords(text)) :
              CheckTextForPump(text, matched)
    \/ /\ call = Idle
       /\ \E symbol \in Symbols :
               /\ UpdateBaseline(symbol, 20, 2000)
               /\ UNCHANGED updates
    \/ Return

\* the three public methods of one detector, the update_baseline calls recorded
CacheNext ==
    \/ /\ call = Idle
       /\ \E social \in QuietSocialInputs, market \in QuietMarketInputs,
             historical_social \in HistoricalSocials :
               Analyze(social, market, historical_social)
    \/ /\ call = Idle
       /\ \E text \in Fragments : \E matched \in Orderings(MatchedKeywords(text)) :
              CheckTextForPump(text, matched)
    \/ /\ call = Idle
       /\ \E symbol \in Symbols, social_avg \in SocialAvgs :
               /\ UpdateBaseline(symbol, social_avg, social_avg * 100)
               /\ RecordUpdate(symbol, social_avg, social_avg * 100)
    \/ Return

(***************************************************************************)
(* update_baseline and analyze running in two threads on one detector.     *)
(* A step is one access to the detector's dictionaries: the two stores of  *)
(* update_baseline (lines 367, 368) and the one read of analyze (line      *)
(* 181); the rest of analyze works on its arguments, on the constructor's  *)
(* thresholds and on the value it has read.                                *)
(***************************************************************************)
InProgress == call # Idle /\ call.op = "concurrent"

\* both calls start; before is the social-baseline cache at that moment
\* (history, not program state)
StartConcurrent(symbol, social_avg, volume_avg, social, market, historical_social) ==
    /\ call = Idle
    /\ call' = [op |-> "concurrent",
                update |-> [pc |-> "store_social", symbol |-> symbol,
                            social_avg |-> social_avg, volume_avg |-> volume_avg],
                analyze |-> [pc |-> "read_baseline", social |-> social,
                             market |-> market,
                             historical_social |-> historical_social,
                             baseline |-> None, result |-> None],
                before |-> social_baselines]
    /\ UNCHANGED pumpVars
    /\ UNCHANGED otherThanPump

\* update_baseline, line 367: self._social_baselines[symbol] = social_avg
UpdateStoreSocial ==
    /\ InProgress
    /\ call.update.pc = "store_social"
    /\ social_baselines' =
           DictSet(social_baselines, call.update.symbol, call.update.social_avg)
    /\ call' = [call EXCEPT !.update.pc = "store_volume"]
    /\ UNCHANGED <<config, volume_baselines, updates>>
    /\ UNCHANGED otherThanPump

\* update_baseline, line 368: self._volume_baselines[symbol] = volume_avg
UpdateStoreVolume ==
    /\ InProgress
    /\ call.update.pc = "store_volume"
    /\ volume_baselines' =
           DictSet(volume_baselines, call.update.symbol, call.update.volume_avg)
    /\ call' = [call EXCEPT !.update.pc = "done"]
    /\ UNCHANGED <<config, social_baselines, updates>>
    /\ UNCHANGED otherThanPump

\* mutant: the baseline is read under the symbol that is being updated
AnalyzeReadBaselineOfUpdated ==
    /\ InProgress
    /\ call.analyze.pc = "read_baseline"
    /\ call' = [call EXCEPT
                  !.analyze.pc = "evaluate",
                  !.analyze.baseline =
                      Some(BaselineOf(social_baselines, call.update.symbol,
                                      call.analyze.historical_social))]
    /\ UNCHANGED pumpVars
    /\ UNCHANGED otherThanPump

\* analyze, line 181:
\* baseline = historical_social or self._social_baselines.get(symbol, 10)
AnalyzeReadBaseline ==
    /\ InProgress
    /\ call.analyze.pc = "read_baseline"
    /\ call' = [call EXCEPT
                  !.analyze.pc = "evaluate",
                  !.analyze.baseline =
                      Some(BaselineOf(social_baselines, call.analyze.social.symbol,
                                      call.analyze.historical_social))]
    /\ UNCHANGED pumpVars
    /\ UNCHANGED otherThanPump

\* mutant: the signals are built from a second read of the baseline
AnalyzeEvaluateReadingAgain ==
    /\ InProgress
    /\ call.analyze.pc = "evaluate"
    /\ call' = [call EXCEPT
                  !.analyze.pc = "done",
                  !.analyze.result =
                      Some([AnalyzeFrom(config, call.analyze.social, call.analyze.market,
                                        call.analyze.baseline[1])
                            EXCEPT !.signals =
                                AnalyzeResult(config, social_baselines,
                                              call.analyze.social, call.analyze.market,
                                              call.analyze.historical_social).signals])]
    /\ UNCHANGED pumpVars
    /\ UNCHANGED otherThanPump

\* analyze, lines 182-302: the signals, the aggregate and the alert
AnalyzeEvaluate ==
    /\ InProgress
    /\ call.analyze.pc = "evaluate"
    /\ call' = [call EXCEPT
                  !.analyze.pc = "done",
                  !.analyze.result =
                      Some(AnalyzeFrom(config, call.analyze.social, call.analyze.market,
                                       call.analyze.baseline[1]))]
    /\ UNCHANGED pumpVars
    /\ UNCHANGED otherThanPump

\* both calls have returned
Join ==
    /\ InProgress
    /\ call.update.pc = "done"
    /\ call.analyze.pc = "done"
    /\ call' = Idle
    /\ UNCHANGED pumpVars
    /\ UNCHANGED otherThanPump

ConcurrentNext ==
    \/ /\ call = Idle
       /\ \E symbol \in Symbols, social_avg \in SocialAvgs :
               /\ UpdateBaseline(symbol, social_avg, social_avg * 100)
               /\ UNCHANGED updates
    \/ /\ call = Idle
       /\ \E symbol \in Symbols, social_avg \in SocialAvgs,
             social \in QuietSocialInputs, market \in QuietMarketInputs,
             historical_social \in HistoricalSocials :
               StartConcurrent(symbol, social_avg, social_avg * 100, social, market,
                               historical_social)
    \/ UpdateStoreSocial
    \/ UpdateStoreVolume
    \/ AnalyzeReadBaseline
    \/ AnalyzeEvaluate
    \/ Join

(***************************************************************************)
(* Calls of dtw_distance on caller-supplied sequences.                     *)
(***************************************************************************)
MaxSeqLen == 3     \* longest sequence given to dtw_distance
MaxWindow == 2     \* widest band given to dtw_distance

DtwValues == {RInt(0), RInt(1), RInt(3)}
DtwSequences == SeqsUpTo(DtwValues, MaxSeqLen)
DtwWindows == {None} \cup {Some(w) : w \in 0..MaxWindow}

\* DTWPatternMatcher.dtw_distance(seq1, seq2, window)
DtwDistanceCall(seq1, seq2, window) ==
    /\ call = Idle
    /\ call' = [op |-> "dtw_distance", seq1 |-> seq1, seq2 |-> seq2, window |-> window,
                result |-> DtwDistance(seq1, seq2, window)]
    /\ UNCHANGED <<matcher, patterns>>
    /\ UNCHANGED otherThanMatcher

DtwNext ==
    \/ /\ call = Idle
       /\ \E seq1 \in DtwSequences, seq2 \in DtwSequences, window \in DtwWindows :
               DtwDistanceCall(seq1, seq2, window)
    \/ Return

(***************************************************************************)
(* Calls of _deduplicate_matches on caller-supplied match lists.           *)
(***************************************************************************)
MaxMatches == 3    \* longest list given to _deduplicate_matches

DedupRanges == {<<0, 4>>, <<1, 5>>, <<2, 6>>, <<6, 10>>, <<0, 8>>}
DedupSimilarities == {Rat(7, 10), Rat(8, 10), Rat(9, 10)}

\* the pattern the matches are of
DedupPattern == Pattern("Step", "custom", <<RInt(0), RInt(1)>>, "neutral", "")

DedupMatches ==
    { PatternMatch(DedupPattern, sim, r[1], r[2], RInt(1)) :
        sim \in DedupSimilarities, r \in DedupRanges }

\* DTWPatternMatcher._deduplicate_matches(matches)
DeduplicateCall(matches) ==
    /\ call = Idle
    /\ call' = [op |-> "_deduplicate_matches", matches |-> matches,
                result |-> DeduplicateMatches(matches)]
    /\ UNCHANGED <<matcher, patterns>>
    /\ UNCHANGED otherThanMatcher

DedupNext ==
    \/ /\ call = Idle
       /\ \E matches \in SeqsUpTo(DedupMatches, MaxMatches) : DeduplicateCall(matches)
    \/ Return

(***************************************************************************)
(* Calls on a DTWPatternMatcher and its PatternLibrary.                    *)
(***************************************************************************)
MaxCustom == 2     \* patterns added to the library after the seed set

Ints(ns) == [i \in DOMAIN ns |-> RInt(ns[i])]

\* arguments given to create_custom_pattern
CreateInputs ==
    { <<"My Pattern", Ints(<<10, 20, 15, 25, 20, 30>>), "bullish", "Test pattern">>,
      <<"My Pattern", Ints(<<3, 1, 2>>), "neutral", "">>,
      <<"Flat", Ints(<<5, 5, 5>>), "neutral", "">> }

CreatedPatterns == { CustomPattern(c[1], c[2], c[3], c[4]) : c \in CreateInputs }

\* Pattern objects built by the caller itself
CallerPatterns ==
    { Pattern("Custom Test", "custom", <<RInt(0), Rat(1, 2), RInt(1), Rat(1, 2), RInt(0)>>,
              "neutral", "Test pattern"),
      Pattern("Raw Prices", "custom", Ints(<<2, 5, 3>>), "neutral", "Test pattern") }

PriceSeries == { Ints(<<4, 1, 3, 1, 4>>), Ints(<<1, 2, 3, 4>>), Ints(<<1, 2>>) }

PatternArgs == {None} \cup {Some(<<p>>) : p \in CreatedPatterns}

Matchers == { [window_sizes |-> <<3, 4>>, similarity_threshold |-> Rat(7, 10)] }

\* mutant: the pattern built is also appended to the library
CreateAndRegister(name, template_prices, expected_outcome, description) ==
    /\ call = Idle
    /\ call' = [op |-> "create_custom_pattern", name |-> name,
                template_prices |-> template_prices,
                result |-> CustomPattern(name, template_prices, expected_outcome,
                                         description)]
    /\ patterns' = Append(patterns, CustomPattern(name, template_prices,
                                                  expected_outcome, description))
    /\ UNCHANGED matcher
    /\ UNCHANGED otherThanMatcher

\* DTWPatternMatcher.create_custom_pattern(name, template_prices, ...)
CreateCustomPattern(name, template_prices, expected_outcome, description) ==
    /\ call = Idle
    /\ call' = [op |-> "create_custom_pattern", name |-> name,
                template_prices |-> template_prices,
                result |-> CustomPattern(name, template_prices, expected_outcome,
                                         description)]
    /\ UNCHANGED <<matcher, patterns>>
    /\ UNCHANGED otherThanMatcher

\* PatternLibrary.add_pattern(pattern)
AddPattern(pattern) ==
    /\ call = Idle
    /\ Len(patterns) < Len(CommonPatterns) + MaxCustom
    /\ patterns' = Append(patterns, pattern)
    /\ call' = [op |-> "add_pattern", pattern |-> pattern]
    /\ UNCHANGED matcher
    /\ UNCHANGED otherThanMatcher

\* DTWPatternMatcher.find_patterns(prices, patterns)
FindPatterns(prices, patterns_arg) ==
    /\ call = Idle
    /\ call' = [op |-> "find_patterns", prices |-> prices, patterns_arg |-> patterns_arg,
                searched |-> IF \E k \in 1..Len(matcher.window_sizes) :
                                    Len(prices) >= matcher.window_sizes[k]
                             THEN PatternsToSearch(patterns_arg, patterns) ELSE <<>>,
                result |-> FindPatternsResult(matcher, patterns, prices, patterns_arg)]
    /\ UNCHANGED <<matcher, patterns>>
    /\ UNCHANGED otherThanMatcher

LibraryNext ==
    \/ /\ call = Idle
       /\ \E c \in CreateInputs : CreateCustomPattern(c[1], c[2], c[3], c[4])
    \/ /\ call = Idle
       /\ \E pattern \in CreatedPatterns \cup CallerPatterns : AddPattern(pattern)
    \/ /\ call = Idle
       /\ \E prices \in PriceSeries, patterns_arg \in PatternArgs :
               FindPatterns(prices, patterns_arg)
    \/ Return

(***************************************************************************)
(* find_patterns under several window sizes and thresholds: windows of one *)
(* point, windows whose stride is 2, a threshold of 0 and one above 1.     *)
(***************************************************************************)
WindowMatchers ==
    [ window_sizes : {<<1>>, <<3, 4>>, <<8>>, <<2, 9>>, <<12>>},
      similarity_threshold : {RInt(0), Rat(1, 2), Rat(7, 10), Rat(11, 10)} ]

WindowSeries ==
    { Ints(<<9, 9, 4, 1, 3, 5, 3, 1, 4, 9>>), Ints(<<1, 2, 3, 4, 5, 6, 7, 8, 9, 10>>),
      Ints(<<5, 5, 7, 7, 7, 7, 5, 5, 5>>), Ints(<<4, 1, 3, 1, 4>>), Ints(<<7>>) }

WindowInit ==
    /\ config = DefaultConfig
    /\ social_baselines = <<>>
    /\ volume_baselines = <<>>
    /\ updates = <<>>
    /\ matcher \in WindowMatchers
    /\ patterns = CommonPatterns
    /\ forest = NewForest
    /\ call = Idle

WindowNext ==
    \/ /\ call = Idle
       /\ \E prices \in WindowSeries,
             patterns_arg \in {None} \cup {Some(<<p>>) : p \in CallerPatterns} :
               FindPatterns(prices, patterns_arg)
    \/ Return

(***************************************************************************)
(* find_patterns on price series shaped like a seed template, for matchers *)
(* whose window sizes include the templates' length.                       *)
(***************************************************************************)
\* a + b * template
AffineImage(a, b, template) ==
    [k \in DOMAIN template |-> RAdd(RInt(a), RMul(RInt(b), template[k]))]

Offsets == {0, 100, 1000}
Scales == {1, 10, 50}

ShapedSeries ==
    { AffineImage(a, b, t) : a \in Offsets, b \in Scales, t \in {double_bottom, double_top} }

ShapeMatchers ==
    [ window_sizes : {<<20>>, <<15, 20>>, <<20, 30>>},
      similarity_threshold : {Rat(7, 10), Rat(95, 100)} ]

ShapeInit ==
    /\ config = DefaultConfig
    /\ social_baselines = <<>>
    /\ volume_baselines = <<>>
    /\ updates = <<>>
    /\ matcher \in ShapeMatchers
    /\ patterns = CommonPatterns
    /\ forest = NewForest
    /\ call = Idle

ShapeNext ==
    \/ /\ call = Idle
       /\ \E prices \in ShapedSeries : FindPatterns(prices, None)
    \/ Return

(***************************************************************************)
(* models/anomaly.py: AnomalyDetector                                      *)
(*                                                                         *)
(* A z-score is an irrational number in general (np.std takes a square     *)
(* root), so it is carried as its sign and its exact square; comparisons   *)
(* with a threshold are made on the squares.                               *)
(***************************************************************************)
Lookback == 3      \* lookback_period of the modelled configuration

\* AnomalyConfig: the default thresholds, a short lookback period
ShortLookbackConfig ==
    [ price_z_threshold |-> RInt(3), volume_z_threshold |-> RInt(4),
      volatility_z_threshold |-> Rat(7, 2), gap_z_threshold |-> RInt(3),
      lookback_period |-> Lookback, min_severity |-> Rat(1, 2) ]

RECURSIVE RSum(_)
RSum(s) == IF s = <<>> THEN RInt(0) ELSE RAdd(Head(s), RSum(Tail(s)))

\* np.mean
Mean(s) == RDiv(RSum(s), RInt(Len(s)))

\* np.std squared: the mean of the squared deviations from the mean
Variance(s) ==
    LET mean == Mean(s)
    IN  Mean([k \in 1..Len(s) |-> RMul(RSub(s[k], mean), RSub(s[k], mean))])

\* mutant: the window ends at the bar under test instead of before it
LookbackWindowInclusive(metric, i, lookback_period) ==
    SubSeq(metric, i - lookback_period + 2, i + 1)

\* metric[i - lookback_period : i] for the 0-based index i
LookbackWindow(metric, i, lookback_period) ==
    SubSeq(metric, i - lookback_period + 1, i)

Sign(n) == IF n > 0 THEN 1 ELSE IF n < 0 THEN -1 ELSE 0

\* z_score = (value - mean) / std, for a lookback whose std is not zero
ZScore(value, lookback) ==
    LET dev == RSub(value, Mean(lookback))
    IN  [ sign |-> Sign(dev[1]),
          squared |-> RDiv(RMul(dev, dev), Variance(lookback)) ]

\* abs(z_score) >= threshold
AbsZAtLeast(z, threshold) ==
    threshold[1] <= 0 \/ RLe(RMul(threshold, threshold), z.squared)

\* z_score >= threshold
ZAtLeast(z, threshold) ==
    IF threshold[1] > 0
    THEN z.sign > 0 /\ RLe(RMul(threshold, threshold), z.squared)
    ELSE z.sign >= 0 \/ RLe(z.squared, RMul(threshold, threshold))

\* min(abs(z_score) / scale, 1.0), as sign and square
SeverityAbs(z, scale) ==
    [ sign |-> Abs(z.sign),
      squared |-> RMin(RDiv(z.squared, RInt(scale * scale)), RInt(1)) ]

\* min(z_score / scale, 1.0), as sign and square
SeveritySigned(z, scale) ==
    IF z.sign < 0
    THEN [ sign |-> -1, squared |-> RDiv(z.squared, RInt(scale * scale)) ]
    ELSE SeverityAbs(z, scale)

\* Anomaly; index is the position of the bar in the metric series (the code
\* stamps the anomaly with the current time instead)
Anomaly(anomaly_type, index, severity, z_score, value) ==
    [ anomaly_type |-> anomaly_type, index |-> index, severity |-> severity,
      z_score |-> z_score, value |-> value ]

\* returns = np.diff(prices) / prices[:-1]
Returns(prices) ==
    [k \in 1..(Len(prices) - 1) |-> Rat(prices[k + 1] - prices[k], prices[k])]

\* tr = max(high - low, |high - previous close|, |low - previous close|)
TrueRange(highs, lows, closes) ==
    [k \in 1..(Len(highs) - 1) |->
        RInt(IntMax(highs[k + 1] - lows[k + 1],
                    IntMax(Abs(highs[k + 1] - closes[k]),
                           Abs(lows[k + 1] - closes[k]))))]

\* gaps = (opens[1:] - closes[:-1]) / closes[:-1]
Gaps(opens, closes) ==
    [k \in 1..(Len(opens) - 1) |-> Rat(opens[k + 1] - closes[k], closes[k])]

RECURSIVE PriceLoop(_, _, _)
\* the loop of detect_price_anomalies from index i on
PriceLoop(cfg, returns, i) ==
    IF i >= Len(returns) THEN <<>>
    ELSE LET lookback == LookbackWindow(returns, i, cfg.lookback_period)
             z_score == ZScore(returns[i + 1], lookback)
         IN  IF BelowEpsilon(Variance(lookback)) THEN PriceLoop(cfg, returns, i + 1)
             ELSE IF AbsZAtLeast(z_score, cfg.price_z_threshold)
                  THEN <<Anomaly("price_spike", i, SeverityAbs(z_score, 5),
                                 z_score, returns[i + 1])>>
                       \o PriceLoop(cfg, returns, i + 1)
                  ELSE PriceLoop(cfg, returns, i + 1)

DetectPriceAnomalies(cfg, prices) ==
    IF Len(prices) < cfg.lookback_period + 1 THEN <<>>
    ELSE PriceLoop(cfg, Returns(prices), cfg.lookback_period)

\* mutant: the value compared with the window is that of the following bar
RECURSIVE VolumeLoopNextBar(_, _, _)
VolumeLoopNextBar(cfg, volumes, i) ==
    IF i >= Len(volumes) THEN <<>>
    ELSE LET lookback == SubSeq(volumes, i - cfg.lookback_period + 1, i)
             current == volumes[IF i + 2 <= Len(volumes) THEN i + 2 ELSE i + 1]
             z_score == ZScore(current, lookback)
         IN  IF BelowEpsilon(Variance(lookback)) \/ BelowEpsilon(Mean(lookback))
             THEN VolumeLoopNextBar(cfg, volumes, i + 1)
             ELSE IF ZAtLeast(z_score, cfg.volume_z_threshold)
                  THEN <<Anomaly("volume_spike", i, SeveritySigned(z_score, 8),
                                 z_score, current)>>
                       \o VolumeLoopNextBar(cfg, volumes, i + 1)
                  ELSE VolumeLoopNextBar(cfg, volumes, i + 1)

RECURSIVE VolumeLoop(_, _, _)
\* the loop of detect_volume_anomalies from index i on
VolumeLoop(cfg, volumes, i) ==
    IF i >= Len(volumes) THEN <<>>
    ELSE LET lookback == LookbackWindow(volumes, i, cfg.lookback_period)
             z_score == ZScore(volumes[i + 1], lookback)
         IN  IF BelowEpsilon(Variance(lookback)) \/ BelowEpsilon(Mean(lookback))
             THEN VolumeLoop(cfg, volumes, i + 1)
             ELSE IF ZAtLeast(z_score, cfg.volume_z_threshold)
                  THEN <<Anomaly("volume_spike", i, SeveritySigned(z_score, 8),
                                 z_score, volumes[i + 1])>>
                       \o VolumeLoop(cfg, volumes, i + 1)
                  ELSE VolumeLoop(cfg, volumes, i + 1)

\* mutant: a series too short for the lookback period is scanned with a window
\* of two samples
DetectVolumeAnomaliesShortWindow(cfg, volumes) ==
    VolumeLoop([cfg EXCEPT !.lookback_period = 2], Ints(volumes), 2)

DetectVolumeAnomalies(cfg, volumes) ==
    IF Len(volumes) < cfg.lookback_period + 1 THEN <<>>
    ELSE VolumeLoop(cfg, Ints(volumes), cfg.lookback_period)

RECURSIVE VolatilityLoop(_, _, _)
\* the loop of detect_volatility_anomalies from index i on
VolatilityLoop(cfg, tr, i) ==
    IF i >= Len(tr) THEN <<>>
    ELSE LET lookback == LookbackWindow(tr, i, cfg.lookback_period)
             z_score == ZScore(tr[i + 1], lookback)
         IN  IF BelowEpsilon(Variance(lookback)) THEN VolatilityLoop(cfg, tr, i + 1)
             ELSE IF ZAtLeast(z_score, cfg.volatility_z_threshold)
                  THEN <<Anomaly("volatility_explosion", i, SeveritySigned(z_score, 6),
                                 z_score, tr[i + 1])>>
                       \o VolatilityLoop(cfg, tr, i + 1)
                  ELSE VolatilityLoop(cfg, tr, i + 1)

DetectVolatilityAnomalies(cfg, highs, lows, closes) ==
    IF Len(highs) < cfg.lookback_period + 1 THEN <<>>
    ELSE VolatilityLoop(cfg, TrueRange(highs, lows, closes), cfg.lookback_period)

RECURSIVE GapLoop(_, _, _)
\* the loop of detect_gap_anomalies from index i on
GapLoop(cfg, gaps, i) ==
    IF i >= Len(gaps) THEN <<>>
    ELSE LET lookback == LookbackWindow(gaps, i, cfg.lookback_period)
             z_score == ZScore(gaps[i + 1], lookback)
         IN  IF BelowEpsilon(Variance(lookback)) THEN GapLoop(cfg, gaps, i + 1)
             ELSE IF AbsZAtLeast(z_score, cfg.gap_z_threshold)
                  THEN <<Anomaly("gap_anomaly", i, SeverityAbs(z_score, 5),
                                 z_score, gaps[i + 1])>>
                       \o GapLoop(cfg, gaps, i + 1)
                  ELSE GapLoop(cfg, gaps, i + 1)

DetectGapAnomalies(cfg, opens, closes) ==
    IF Len(opens) < cfg.lookback_period + 2 THEN <<>>
    ELSE GapLoop(cfg, Gaps(opens, closes), cfg.lookback_period)

\* a.severity >= min_severity
SeverityAtLeast(severity, min_severity) ==
    IF min_severity[1] > 0
    THEN severity.sign > 0 /\ RLe(RMul(min_severity, min_severity), severity.squared)
    ELSE severity.sign >= 0 \/ RLe(severity.squared, RMul(min_severity, min_severity))

\* mutant: nothing is filtered out
KeepAll(anomalies, min_severity) == anomalies

\* [a for a in anomalies if a.severity >= self.config.min_severity]
RECURSIVE FilterBySeverity(_, _)
FilterBySeverity(anomalies, min_severity) ==
    IF anomalies = <<>> THEN <<>>
    ELSE (IF SeverityAtLeast(Head(anomalies).severity, min_severity)
          THEN <<Head(anomalies)>> ELSE <<>>)
         \o FilterBySeverity(Tail(anomalies), min_severity)

DetectAll(cfg, prices, volumes, highs, lows, opens) ==
    FilterBySeverity(DetectPriceAnomalies(cfg, prices)
                     \o DetectVolumeAnomalies(cfg, volumes)
                     \o DetectVolatilityAnomalies(cfg, highs, lows, prices)
                     \o DetectGapAnomalies(cfg, opens, prices),
                     cfg.min_severity)

(***************************************************************************)
(* Calls of the four detectors of an AnomalyDetector on caller-supplied    *)
(* series.  The detector holds only its immutable config, which is         *)
(* recorded with each call.                                                *)
(***************************************************************************)
MaxBars == 5       \* longest series given to a detector

ClosePrices == {1, 8, 16}
Volumes == {1, 2, 10, 11}
RangeBars ==
    { [high |-> 11, low |-> 10, close |-> 10], [high |-> 12, low |-> 10, close |-> 11],
      [high |-> 29, low |-> 10, close |-> 10], [high |-> 30, low |-> 10, close |-> 10] }
GapBars ==
    { [open |-> 16, close |-> 16], [open |-> 17, close |-> 16],
      [open |-> 32, close |-> 16], [open |-> 1, close |-> 16] }

\* daily bars of one symbol; volume in lots
FullBars ==
    { [open |-> 16, high |-> 16, low |-> 16, close |-> 16, volume |-> 1],
      [open |-> 8, high |-> 17, low |-> 8, close |-> 8, volume |-> 2],
      [open |-> 1, high |-> 30, low |-> 1, close |-> 1, volume |-> 11] }

BarVolumes(bars) == [k \in DOMAIN bars |-> bars[k].volume]
Highs(bars) == [k \in DOMAIN bars |-> bars[k].high]
Lows(bars) == [k \in DOMAIN bars |-> bars[k].low]
Closes(bars) == [k \in DOMAIN bars |-> bars[k].close]
Opens(bars) == [k \in DOMAIN bars |-> bars[k].open]

\* configurations given to detect_all: the default thresholds, the same with a
\* min_severity of 0.9, and z-thresholds of 1 (severities from 0.125 up)
DetectAllConfigs ==
    { ShortLookbackConfig,
      [ShortLookbackConfig EXCEPT !.min_severity = Rat(9, 10)],
      [ShortLookbackConfig EXCEPT !.price_z_threshold = RInt(1),
                                  !.volume_z_threshold = RInt(1),
                                  !.volatility_z_threshold = RInt(1),
                                  !.gap_z_threshold = RInt(1)] }

\* AnomalyDetector.detect_price_anomalies(symbol, prices)
DetectPriceAnomaliesCall(cfg, prices) ==
    /\ call = Idle
    /\ call' = [op |-> "detect_price_anomalies", config |-> cfg, prices |-> prices,
                result |-> DetectPriceAnomalies(cfg, prices)]
    /\ UNCHANGED <<matcher, patterns>>
    /\ UNCHANGED otherThanMatcher

\* AnomalyDetector.detect_volume_anomalies(symbol, volumes)
DetectVolumeAnomaliesCall(cfg, volumes) ==
    /\ call = Idle
    /\ call' = [op |-> "detect_volume_anomalies", config |-> cfg, volumes |-> volumes,
                result |-> DetectVolumeAnomalies(cfg, volumes)]
    /\ UNCHANGED <<matcher, patterns>>
    /\ UNCHANGED otherThanMatcher

\* AnomalyDetector.detect_volatility_anomalies(symbol, highs, lows, closes)
DetectVolatilityAnomaliesCall(cfg, highs, lows, closes) ==
    /\ call = Idle
    /\ call' = [op |-> "detect_volatility_anomalies", config |-> cfg,
                highs |-> highs, lows |-> lows, closes |-> closes,
                result |-> DetectVolatilityAnomalies(cfg, highs, lows, closes)]
    /\ UNCHANGED <<matcher, patterns>>
    /\ UNCHANGED otherThanMatcher

\* AnomalyDetector.detect_gap_anomalies(symbol, opens, closes)
DetectGapAnomaliesCall(cfg, opens, closes) ==
    /\ call = Idle
    /\ call' = [op |-> "detect_gap_anomalies", config |-> cfg,
                opens |-> opens, closes |-> closes,
                result |-> DetectGapAnomalies(cfg, opens, closes)]
    /\ UNCHANGED <<matcher, patterns>>
    /\ UNCHANGED otherThanMatcher

\* AnomalyDetector.detect_all(symbol, prices, volumes, highs, lows, opens)
DetectAllCall(cfg, prices, volumes, highs, lows, opens) ==
    /\ call = Idle
    /\ call' = [op |-> "detect_all", config |-> cfg, prices |-> prices,
                volumes |-> volumes, highs |-> highs, lows |-> lows, opens |-> opens,
                result |-> DetectAll(cfg, prices, volumes, highs, lows, opens)]
    /\ UNCHANGED <<matcher, patterns>>
    /\ UNCHANGED otherThanMatcher

AnomalyNext ==
    \/ /\ call = Idle
       /\ \E prices \in SeqsUpTo(ClosePrices, MaxBars) :
               DetectPriceAnomaliesCall(ShortLookbackConfig, prices)
    \/ /\ call = Idle
       /\ \E volumes \in SeqsUpTo(Volumes, MaxBars) :
               DetectVolumeAnomaliesCall(ShortLookbackConfig, volumes)
    \/ /\ call = Idle
       /\ \E bars \in SeqsUpTo(RangeBars, MaxBars) :
               DetectVolatilityAnomaliesCall(ShortLookbackConfig,
                                             Highs(bars), Lows(bars), Closes(bars))
    \/ /\ call = Idle
       /\ \E bars \in SeqsUpTo(GapBars, MaxBars) :
               DetectGapAnomaliesCall(ShortLookbackConfig, Opens(bars), Closes(bars))
    \/ /\ call = Idle
       /\ \E cfg \in DetectAllConfigs, bars \in SeqsUpTo(FullBars, MaxBars) :
               DetectAllCall(cfg, Closes(bars), BarVolumes(bars),
                             Highs(bars), Lows(bars), Opens(bars))
    \/ Return

(***************************************************************************)
(* models/anomaly.py: IsolationForestDetector                              *)
(*                                                                         *)
(* _model is None or the sklearn estimator built by fit, which is trained  *)
(* once its own fit has returned.  What a trained estimator answers is not *)
(* modelled: it is any array of labels or of scores of the right length.   *)
(* last_fit is history: how the last call of fit ended.                    *)
(***************************************************************************)
MaxSamples == 4    \* most rows in a features array

Labels == {-1, 1}
Scores == {Rat(-4, 5), Rat(-1, 2)}

\* how a call of fit can go: sklearn cannot be imported; the estimator's fit
\* raises (malformed features); the estimator is trained
FitOutcomes == {"import_error", "fit_error", "ok"}

ForestInit ==
    /\ config = DefaultConfig
    /\ social_baselines = <<>>
    /\ volume_baselines = <<>>
    /\ updates = <<>>
    /\ matcher = None
    /\ patterns = <<>>
    /\ forest = NewForest
    /\ call = Idle

\* IsolationForestDetector.fit(features)
Fit(n, outcome) ==
    /\ call = Idle
    /\ forest' =
         CASE outcome = "import_error" ->
                [forest EXCEPT !.fitted = FALSE, !.last_fit = outcome]
           [] outcome = "fit_error" ->
                [forest EXCEPT !.model = Some([trained |-> FALSE]),
                               !.last_fit = outcome]
           [] outcome = "ok" ->
                [model |-> Some([trained |-> TRUE]), fitted |-> TRUE,
                 last_fit |-> outcome]
    /\ call' = [op |-> "fit", samples |-> n, raised |-> outcome = "fit_error",
                result |-> None]
    /\ UNCHANGED pumpVars
    /\ UNCHANGED <<matcher, patterns>>

\* np.ones(n), np.zeros(n)
Constant(n, v) == [k \in 1..n |-> v]

\* mutant: only the estimator is tested, not the _fitted flag
UnfitModelOnly(f) == f.model = None

\* the guard of predict and score_samples:
\* not self._fitted or self._model is None
Unfit(f) == ~f.fitted \/ f.model = None

\* the estimator's own method: it raises NotFittedError before its fit has
\* returned, and ValueError on an array of no rows
EstimatorRaises(f, n) == ~f.model[1].trained \/ n = 0

\* IsolationForestDetector.predict(features); answer is what a trained
\* estimator would return
Predict(n, answer) ==
    /\ call = Idle
    /\ call' = IF Unfit(forest)
               THEN [op |-> "predict", samples |-> n, raised |-> FALSE,
                     result |-> Some(Constant(n, 1))]
               ELSE IF EstimatorRaises(forest, n)
               THEN [op |-> "predict", samples |-> n, raised |-> TRUE,
                     result |-> None]
               ELSE [op |-> "predict", samples |-> n, raised |-> FALSE,
                     result |-> Some(answer)]
    /\ UNCHANGED forest
    /\ UNCHANGED pumpVars
    /\ UNCHANGED <<matcher, patterns>>

\* IsolationForestDetector.score_samples(features)
ScoreSamples(n, answer) ==
    /\ call = Idle
    /\ call' = IF Unfit(forest)
               THEN [op |-> "score_samples", samples |-> n, raised |-> FALSE,
                     result |-> Some(Constant(n, RInt(0)))]
               ELSE IF EstimatorRaises(forest, n)
               THEN [op |-> "score_samples", samples |-> n, raised |-> TRUE,
                     result |-> None]
               ELSE [op |-> "score_samples", samples |-> n, raised |-> FALSE,
                     result |-> Some(answer)]
    /\ UNCHANGED forest
    /\ UNCHANGED pumpVars
    /\ UNCHANGED <<matcher, patterns>>

ForestNext ==
    \/ /\ call = Idle
       /\ \E n \in 0..MaxSamples, outcome \in FitOutcomes : Fit(n, outcome)
    \/ /\ call = Idle
       /\ \E n \in 0..MaxSamples : \E answer \in [1..n -> Labels] : Predict(n, answer)
    \/ /\ call = Idle
       /\ \E n \in 0..MaxSamples : \E answer \in [1..n -> Scores] :
              ScoreSamples(n, answer)
    \/ Return

(***************************************************************************)
(* Specifications.                                                         *)
(***************************************************************************)
\* a PumpDetector, no matcher constructed
Init ==
    /\ PumpInit
    /\ matcher = None
    /\ patterns = <<>>
    /\ forest = NewForest
    /\ call = Idle

\* no object is constructed: the operations called read and write no field
FunctionInit ==
    /\ config = DefaultConfig
    /\ social_baselines = <<>>
    /\ volume_baselines = <<>>
    /\ updates = <<>>
    /\ matcher = None
    /\ patterns = <<>>
    /\ forest = NewForest
    /\ call = Idle

\* a DTWPatternMatcher (its library holds the seed set), a default PumpDetector
MatcherInit ==
    /\ config = DefaultConfig
    /\ social_baselines = <<>>
    /\ volume_baselines = <<>>
    /\ updates = <<>>
    /\ matcher \in Matchers
    /\ patterns = CommonPatterns
    /\ forest = NewForest
    /\ call = Idle

Next == PumpNext

Spec == Init /\ [][Next]_vars

SpecBaseline == Init /\ [][BaselineNext]_vars

SpecThresholds == ThresholdInit /\ [][ThresholdNext]_vars

SpecConcurrent == Init /\ [][ConcurrentNext]_vars

SpecCache == Init /\ [][CacheNext]_vars

SpecForest == ForestInit /\ [][ForestNext]_vars

SpecText == Init /\ [][TextNext]_vars

SpecWindows == WindowInit /\ [][WindowNext]_vars

SpecDtw == FunctionInit /\ [][DtwNext]_vars

SpecDedup == FunctionInit /\ [][DedupNext]_vars

SpecShape == ShapeInit /\ [][ShapeNext]_vars

SpecAnomaly == FunctionInit /\ [][AnomalyNext]_vars

SpecLibrary == MatcherInit /\ [][LibraryNext]_vars

(***************************************************************************)
(* Properties of PumpDetector.                                             *)
(***************************************************************************)
IsAnalyze == call.op = "analyze"

HasSignal(signals, type) == \E i \in 1..Len(signals) : signals[i].signal_type = type

SignalOf(signals, type) ==
    signals[CHOOSE i \in 1..Len(signals) : signals[i].signal_type = type]

\* C1: analyze never raises: after any update_baseline calls (social_avg = 0
\* included) and for any inputs and any historical_social, the call returns a
\* PumpAlert or None.
C1_AnalyzeNeverRaises == IsAnalyze => ~call.result.raised

\* C4: analyze returns None whenever every signal that fires has a confidence
\* strictly below min_confidence_threshold, whatever the number and combination
\* of firing signals, with or without legitimate keywords.
AllSignalsBelowThreshold ==
    /\ IsAnalyze
    /\ ~call.result.raised
    /\ call.result.signals # <<>>
    /\ \A i \in 1..Len(call.result.signals) :
          RLt(call.result.signals[i].confidence, config.min_confidence_threshold)

C4_NoAlertBelowThreshold == AllSignalsBelowThreshold => call.result.alert = None

C4_Witness ==
    /\ AllSignalsBelowThreshold
    /\ Len(call.result.signals) >= 2
    /\ LegitimateCount(call.social) > 0
    /\ call.result.alert = None

\* C5: adding one or more legitimate keywords to keyword_flags, everything else
\* and the detector state being equal, leaves the fired signals unchanged and
\* multiplies the aggregate confidence by exactly 7/10, the same factor for one
\* and for several legitimate keywords.
LegitimateAdditions ==
    {<<"dividen">>, <<"earning">>, <<"dividen", "earning">>, <<"dividen", "dividen">>}

WithFlags(social, flags) == [social EXCEPT !.keyword_flags = flags]

C5_LegitimateDampening ==
    (IsAnalyze /\ LegitimateCount(call.social) = 0) =>
        \A extra \in LegitimateAdditions :
        \A flags \in {call.social.keyword_flags \o extra,
                       extra \o call.social.keyword_flags} :
            LET without == call.result
                with == AnalyzeResult(config, social_baselines,
                                      WithFlags(call.social, flags), call.market,
                                      call.historical_social)
            IN  /\ with.raised = without.raised
                /\ with.signals = without.signals
                /\ (without.weighted_confidence = None) = (with.weighted_confidence = None)
                /\ without.weighted_confidence # None =>
                      with.weighted_confidence[1] =
                          RMul(Rat(7, 10), without.weighted_confidence[1])

C5_Witness ==
    /\ IsAnalyze
    /\ LegitimateCount(call.social) = 0
    /\ Len(call.result.signals) >= 2
    /\ call.result.alert # None
    /\ AnalyzeResult(config, social_baselines,
                     WithFlags(call.social, call.social.keyword_flags \o <<"dividen">>),
                     call.market, call.historical_social).alert = None

\* C7: with no historical value supplied, analyze for symbol s evaluates
\* social_spike (trigger post_count > baseline * social_spike_threshold,
\* confidence min((post_count / baseline - 1) / 5, 1)) with baseline = the
\* social_avg of the most recent update_baseline for s (overwrite, no
\* smoothing), or 10 if s was never updated.
RECURSIVE MostRecentSocialAvg(_, _)
MostRecentSocialAvg(log, s) ==
    IF log = <<>> THEN 10
    ELSE IF log[Len(log)].symbol = s THEN log[Len(log)].social_avg
    ELSE MostRecentSocialAvg(SubSeq(log, 1, Len(log) - 1), s)

C7_BaselineIsLastUpdate ==
    (IsAnalyze /\ call.historical_social = None) =>
        LET b == MostRecentSocialAvg(updates, call.social.symbol)
            pc == call.social.post_count
            thr == config.social_spike_threshold
            r == call.result
            trigger == pc * thr[2] > b * thr[1]
        IN  /\ r.baseline = b
            /\ r.raised => (trigger /\ b = 0)
            /\ ~r.raised =>
                  /\ HasSignal(r.signals, "social_spike") <=> trigger
                  /\ trigger =>
                        SignalOf(r.signals, "social_spike").confidence =
                            (IF pc - b >= 5 * b THEN RInt(1) ELSE Rat(pc - b, 5 * b))

C7_Witness ==
    /\ IsAnalyze
    /\ call.historical_social = None
    /\ Len(updates) = 2
    /\ updates[1].symbol = call.social.symbol
    /\ updates[2].symbol = call.social.symbol
    /\ updates[1].social_avg # updates[2].social_avg
    /\ HasSignal(call.result.signals, "social_spike")
    /\ SignalOf(call.result.signals, "social_spike").confidence = Rat(4, 5)

\* the market input of the scenario: volume_ratio = 10, price_change_pct = 0.25
\* (both configurations have volume threshold 5 and price threshold 0.15)
ScenarioMarket ==
    /\ IsAnalyze
    /\ ~call.result.raised
    /\ call.market.volume_ratio = RInt(10)
    /\ call.market.price_change_pct = Rat(25, 100)

VolumeSpikeAtNineTenths ==
    /\ HasSignal(call.result.signals, "volume_spike")
    /\ SignalOf(call.result.signals, "volume_spike").confidence = Rat(9, 10)

\* C13 as claimed: with that market input volume_spike fires with confidence 0.9
\* and analyze returns an alert of severity high or critical, for every social
\* input it is combined with.
C13_ScenarioAlwaysHighOrCritical ==
    ScenarioMarket =>
        /\ VolumeSpikeAtNineTenths
        /\ call.result.alert # None
        /\ call.result.alert[1].severity \in {"high", "critical"}

\* C13 as amended: with that market input volume_spike fires with confidence 0.9
\* and price_spike with 0.25 / 0.3; when these are the only signals and no
\* legitimate keyword is present the alert has confidence 47/54 and severity
\* high; whenever no legitimate keyword is present and every signal that fires
\* has confidence >= 0.75 the alert is returned with severity high or critical.
\* Weaker social signals or a legitimate keyword can lower the severity.
C13_ScenarioHighWhenSignalsStrong ==
    ScenarioMarket =>
        /\ VolumeSpikeAtNineTenths
        /\ HasSignal(call.result.signals, "price_spike")
        /\ SignalOf(call.result.signals, "price_spike").confidence = Rat(5, 6)
        /\ (Len(call.result.signals) = 2 /\ LegitimateCount(call.social) = 0) =>
              /\ call.result.alert # None
              /\ call.result.alert[1].confidence = Rat(47, 54)
              /\ call.result.alert[1].severity = "high"
        /\ (LegitimateCount(call.social) = 0
              /\ \A i \in 1..Len(call.result.signals) :
                    RLe(Rat(3, 4), call.result.signals[i].confidence)) =>
              /\ call.result.alert # None
              /\ call.result.alert[1].severity \in {"high", "critical"}

C13_Witness ==
    /\ ScenarioMarket
    /\ LegitimateCount(call.social) = 0
    /\ Len(call.result.signals) = 5
    /\ \A i \in 1..Len(call.result.signals) :
          RLe(Rat(3, 4), call.result.signals[i].confidence)
    /\ call.result.alert # None
    /\ call.result.alert[1].severity = "critical"

InUnitInterval(x) == RLe(RInt(0), x) /\ RLe(x, RInt(1))

\* C11: every PumpAlert returned by analyze has confidence in [0, 1], and so
\* has every PumpSignal analyze produced (the alert carries them), for every
\* configuration with positive thresholds and every non-negative input with a
\* positive baseline.
C11_ConfidenceInUnitInterval ==
    (IsAnalyze /\ call.result.baseline > 0 /\ call.result.alert # None) =>
        /\ InUnitInterval(call.result.alert[1].confidence)
        /\ \A i \in 1..Len(call.result.alert[1].signals) :
              InUnitInterval(call.result.alert[1].signals[i].confidence)

(***************************************************************************)
(* Properties of DTWPatternMatcher.dtw_distance.                           *)
(***************************************************************************)
IsDtw == call.op = "dtw_distance"

\* C9: dtw_distance(s, s, w) is exactly 0 for every non-empty sequence s, without
\* a window constraint and with any window constraint w >= 0.
C9_SelfDistanceZero ==
    (IsDtw /\ call.seq1 = call.seq2 /\ call.seq1 # <<>>) => call.result = RInt(0)

C9_Witness ==
    /\ IsDtw
    /\ call.seq1 = call.seq2
    /\ Len(call.seq1) = 3
    /\ call.seq1[1] # call.seq1[2]
    /\ call.window = Some(1)
    /\ call.result = RInt(0)

\* C10: dtw_distance is symmetric: dtw_distance(a, b, w) = dtw_distance(b, a, w)
\* for all sequences a and b, of equal or different lengths, unbanded and for
\* every band width w (np.inf on both sides included).
C10_Symmetric ==
    IsDtw => call.result = DtwDistance(call.seq2, call.seq1, call.window)

C10_Witness ==
    /\ IsDtw
    /\ Len(call.seq1) = 1
    /\ Len(call.seq2) = 3
    /\ call.window = Some(2)
    /\ call.result # Inf
    /\ call.result # RInt(0)
    /\ call.result = DtwDistance(call.seq2, call.seq1, call.window)

(***************************************************************************)
(* Properties of the pattern library and of _deduplicate_matches.          *)
(***************************************************************************)
InSeq(x, seq) == \E k \in 1..Len(seq) : seq[k] = x

IsCreate == call.op = "create_custom_pattern"

\* C2 as claimed: after create_custom_pattern returns, the matcher's library
\* contains the pattern it built (so later find_patterns calls with the default
\* pattern set search it, and the library grows by one per call).
C2_CreateRegisters == IsCreate => InSeq(call.result, patterns)

\* C2 as amended: create_custom_pattern returns the pattern and leaves the
\* library unchanged; the library grows, by exactly the pattern given, only in
\* add_pattern; and find_patterns with patterns=None searches exactly the
\* patterns the library holds at the call (when some window size fits the
\* series).
C2_RegisteredOnlyByAddPattern ==
    [][ /\ call'.op = "create_custom_pattern" => patterns' = patterns
        /\ call'.op = "add_pattern" => patterns' = Append(patterns, call'.pattern)
        /\ call'.op # "add_pattern" => patterns' = patterns
        /\ (call'.op = "find_patterns" /\ call'.patterns_arg = None
              /\ \E k \in 1..Len(matcher.window_sizes) :
                    Len(call'.prices) >= matcher.window_sizes[k]) =>
                /\ call'.searched = patterns
                /\ \A k \in 1..Len(call'.result) :
                      \E i \in 1..Len(patterns) :
                          patterns[i].pattern_type = call'.result[k].pattern_type
      ]_vars

C2_Witness ==
    /\ IsCreate
    /\ ~InSeq(call.result, patterns)
    /\ Len(patterns) = Len(CommonPatterns) + 1
    /\ patterns[Len(patterns)].name = "Raw Prices"

\* C8 as claimed: every pattern of the library has min(template) = 0 and
\* max(template) = 1, unless the template is constant, and then it is all zeros.
IsConstant(template) == \A i, j \in DOMAIN template : template[i] = template[j]

Normalized01(template) ==
    IF IsConstant(template) THEN \A i \in DOMAIN template : template[i] = RInt(0)
    ELSE SeqMin(template) = RInt(0) /\ SeqMax(template) = RInt(1)

WithinUnit(template) ==
    \A i \in DOMAIN template : RLe(RInt(0), template[i]) /\ RLe(template[i], RInt(1))

C8_LibraryNormalized ==
    \A i \in 1..Len(patterns) : Normalized01(patterns[i].template)

\* C8 as amended: every seed template lies within [0, 1], with min 0 and max 1
\* for every seed but Accumulation (min 0.43, max 0.80); every pattern returned
\* by create_custom_pattern has min 0 and max 1 unless its input is constant, and
\* then it is all zeros; add_pattern stores the pattern it is given unchanged, so
\* an added pattern is normalised exactly when the caller's pattern was.
C8_SeedsWithinUnitCustomNormalized ==
    /\ Len(patterns) >= Len(CommonPatterns)
    /\ \A i \in 1..Len(CommonPatterns) :
          /\ patterns[i] = CommonPatterns[i]
          /\ WithinUnit(patterns[i].template)
          /\ patterns[i].name # "Accumulation" => Normalized01(patterns[i].template)
          /\ patterns[i].name = "Accumulation" =>
                /\ SeqMin(patterns[i].template) = Rat(43, 100)
                /\ SeqMax(patterns[i].template) = Rat(80, 100)
    /\ IsCreate =>
          /\ Normalized01(call.result.template)
          /\ IsConstant(call.template_prices) <=> IsConstant(call.result.template)
    /\ \A i \in 1..Len(patterns) :
          patterns[i] \in CreatedPatterns => Normalized01(patterns[i].template)
    /\ call.op = "add_pattern" => patterns[Len(patterns)] = call.pattern

C8_Witness ==
    /\ Len(patterns) = Len(CommonPatterns) + 2
    /\ patterns[9].name = "Flat"
    /\ IsConstant(patterns[9].template)
    /\ patterns[10].name = "My Pattern"
    /\ SeqMin(patterns[10].template) = RInt(0)
    /\ SeqMax(patterns[10].template) = RInt(1)
    /\ IsCreate
    /\ ~IsConstant(call.result.template)

IsDedup == call.op = "_deduplicate_matches"

RangesIntersect(a, b) == ~(a.end_idx <= b.start_idx \/ a.start_idx >= b.end_idx)

OverlapLength(a, b) ==
    IntMin(a.end_idx, b.end_idx) - IntMax(a.start_idx, b.start_idx)

\* a and b overlap by more than 50% of each one's span
MutualOverlap(a, b) ==
    /\ RangesIntersect(a, b)
    /\ 2 * OverlapLength(a, b) > a.end_idx - a.start_idx
    /\ 2 * OverlapLength(a, b) > b.end_idx - b.start_idx

OverlapsNoOther(matches, i) ==
    \A k \in 1..Len(matches) : k # i => ~RangesIntersect(matches[i], matches[k])

\* C3 as claimed: for every input list, of two matches that overlap by more than
\* 50% of each one's span the lower-similarity one is never in the output (only
\* the higher-similarity one is retained), and matches that overlap no other
\* match are all retained.
C3_LowerNeverRetained ==
    IsDedup =>
        /\ \A i, j \in 1..Len(call.matches) :
              (MutualOverlap(call.matches[i], call.matches[j])
                 /\ RLt(call.matches[j].similarity, call.matches[i].similarity)) =>
                    ~InSeq(call.matches[j], call.result)
        /\ \A i \in 1..Len(call.matches) :
              OverlapsNoOther(call.matches, i) => InSeq(call.matches[i], call.result)

\* C3 as amended: of two matches that overlap by more than 50% of each one's
\* span, the output never retains both, and the lower-similarity one is dropped
\* whenever the higher-similarity one is retained (it can survive when the
\* higher one was itself dropped in favour of another retained match); on a
\* two-match input exactly the higher-similarity one is retained; matches that
\* overlap no other match are all retained.
C3_LowerDroppedWhenHigherRetained ==
    IsDedup =>
        /\ \A i, j \in 1..Len(call.matches) :
              (MutualOverlap(call.matches[i], call.matches[j])
                 /\ call.matches[i] # call.matches[j]) =>
                    ~(InSeq(call.matches[i], call.result)
                        /\ InSeq(call.matches[j], call.result))
        /\ \A i, j \in 1..Len(call.matches) :
              (MutualOverlap(call.matches[i], call.matches[j])
                 /\ RLt(call.matches[j].similarity, call.matches[i].similarity)
                 /\ InSeq(call.matches[i], call.result)) =>
                    ~InSeq(call.matches[j], call.result)
        /\ \A i, j \in 1..Len(call.matches) :
              (Len(call.matches) = 2
                 /\ MutualOverlap(call.matches[i], call.matches[j])
                 /\ RLt(call.matches[j].similarity, call.matches[i].similarity)) =>
                    call.result = <<call.matches[i]>>
        /\ \A i \in 1..Len(call.matches) :
              OverlapsNoOther(call.matches, i) => InSeq(call.matches[i], call.result)

C3_Witness ==
    /\ IsDedup
    /\ Len(call.matches) = 3
    /\ \E i, j, k \in 1..3 :
          /\ MutualOverlap(call.matches[i], call.matches[j])
          /\ RLt(call.matches[j].similarity, call.matches[i].similarity)
          /\ OverlapsNoOther(call.matches, k)
          /\ RLt(call.matches[k].similarity, call.matches[j].similarity)
          /\ call.result = <<call.matches[i], call.matches[k]>>

IsFind == call.op = "find_patterns"

\* the price series is a positive affine image of the seed double-bottom template
IsDoubleBottomImage(prices) ==
    \E a \in Offsets, b \in Scales : prices = AffineImage(a, b, double_bottom)

\* C14: for a matcher whose window sizes include 20 and whose threshold is at
\* most 0.95, find_patterns on a positive affine image of the 20-point seed
\* double-bottom template returns a double_bottom match covering [0, 20) with
\* similarity >= 0.95 (the match survives deduplication).
C14_DoubleBottomFound ==
    (IsFind /\ IsDoubleBottomImage(call.prices)
       /\ (\E k \in 1..Len(matcher.window_sizes) : matcher.window_sizes[k] = 20)
       /\ RLe(matcher.similarity_threshold, Rat(95, 100))) =>
        \E k \in 1..Len(call.result) :
            /\ call.result[k].pattern_type = "double_bottom"
            /\ call.result[k].start_idx = 0
            /\ call.result[k].end_idx = 20
            /\ RLe(Rat(95, 100), call.result[k].similarity)

C14_Witness ==
    /\ IsFind
    /\ call.prices = AffineImage(1000, 50, double_bottom)
    /\ matcher.window_sizes = <<15, 20>>
    /\ matcher.similarity_threshold = Rat(95, 100)
    /\ \E k \in 1..Len(call.result) :
          /\ call.result[k].pattern_type = "double_bottom"
          /\ call.result[k].start_idx = 0
          /\ call.result[k].end_idx = 20
          /\ call.result[k].similarity = RInt(1)

(***************************************************************************)
(* Properties of AnomalyDetector.                                          *)
(***************************************************************************)
IsDetect ==
    call.op \in {"detect_price_anomalies", "detect_volume_anomalies",
                 "detect_volatility_anomalies", "detect_gap_anomalies"}

\* the metric series a detector call examines, and its z-threshold
MetricOf(c) ==
    CASE c.op = "detect_price_anomalies" -> Returns(c.prices)
      [] c.op = "detect_volume_anomalies" -> Ints(c.volumes)
      [] c.op = "detect_volatility_anomalies" -> TrueRange(c.highs, c.lows, c.closes)
      [] c.op = "detect_gap_anomalies" -> Gaps(c.opens, c.closes)

ThresholdOf(c) ==
    CASE c.op = "detect_price_anomalies" -> c.config.price_z_threshold
      [] c.op = "detect_volume_anomalies" -> c.config.volume_z_threshold
      [] c.op = "detect_volatility_anomalies" -> c.config.volatility_z_threshold
      [] c.op = "detect_gap_anomalies" -> c.config.gap_z_threshold

\* the bars (0-based metric indices) that have a full lookback window
BarsOf(c) == (c.config.lookback_period)..(Len(MetricOf(c)) - 1)

\* the window of bar i: the lookback_period metric values before it
WindowOf(c, i) == SubSeq(MetricOf(c), i - c.config.lookback_period + 1, i)

ValueOf(c, i) == MetricOf(c)[i + 1]

Flagged(c, i) == \E k \in 1..Len(c.result) : c.result[k].index = i

\* sigma >= epsilon: on the rational grid of the inputs, sigma is not zero
SigmaAtLeastEpsilon(window) == RLt(RInt(0), Variance(window))

Square(x) == RMul(x, x)

\* k^2 >= threshold^2, where value = mu + k * sigma
KSquaredAtLeast(value, window, threshold) ==
    RLe(RMul(Square(threshold), Variance(window)), Square(RSub(value, Mean(window))))

\* k >= threshold (> 0), where value = mu + k * sigma
KAtLeast(value, window, threshold) ==
    RLt(Mean(window), value) /\ KSquaredAtLeast(value, window, threshold)

\* k <= -threshold (< 0), where value = mu + k * sigma
KAtMostMinus(value, window, threshold) ==
    RLt(value, Mean(window)) /\ KSquaredAtLeast(value, window, threshold)

\* C6 as claimed: for each of the four detectors and every lookback window with
\* sigma >= epsilon, the bar at mu + k * sigma is flagged if and only if k is at
\* least the detector's z-threshold.
C6_FlaggedIffKAtLeastThreshold ==
    IsDetect =>
        \A i \in BarsOf(call) :
            SigmaAtLeastEpsilon(WindowOf(call, i)) =>
                (Flagged(call, i) <=>
                    KAtLeast(ValueOf(call, i), WindowOf(call, i), ThresholdOf(call)))

\* C6 as amended: for every lookback window with sigma >= epsilon, the bar at
\* mu + k * sigma is flagged by the price and gap detectors if and only if
\* |k| >= threshold (k >= threshold or k <= -threshold), by the volatility
\* detector if and only if k >= threshold, and by the volume detector if and only
\* if k >= threshold and mu >= epsilon; a bar whose window has sigma < epsilon
\* is never flagged.
C6_TwoSidedPriceGapOneSidedVolumeVolatility ==
    IsDetect =>
        \A i \in BarsOf(call) :
            LET window == WindowOf(call, i)
                value == ValueOf(call, i)
                up == KAtLeast(value, window, ThresholdOf(call))
                down == KAtMostMinus(value, window, ThresholdOf(call))
            IN  IF ~SigmaAtLeastEpsilon(window) THEN ~Flagged(call, i)
                ELSE CASE call.op \in {"detect_price_anomalies", "detect_gap_anomalies"} ->
                            (Flagged(call, i) <=> (up \/ down))
                       [] call.op = "detect_volatility_anomalies" ->
                            (Flagged(call, i) <=> up)
                       [] call.op = "detect_volume_anomalies" ->
                            (Flagged(call, i) <=> (up /\ RLt(RInt(0), Mean(window))))

\* a price bar three or more sigma below the window mean is flagged
C6_Witness ==
    /\ call.op = "detect_price_anomalies"
    /\ \E i \in BarsOf(call) :
          /\ SigmaAtLeastEpsilon(WindowOf(call, i))
          /\ KAtMostMinus(ValueOf(call, i), WindowOf(call, i), ThresholdOf(call))
          /\ Flagged(call, i)

\* the samples given to a detector call (the series of one call are columns of
\* the same bars and have one length)
SamplesOf(c) ==
    CASE c.op \in {"detect_price_anomalies", "detect_all"} -> Len(c.prices)
      [] c.op = "detect_volume_anomalies" -> Len(c.volumes)
      [] c.op = "detect_volatility_anomalies" -> Len(c.highs)
      [] c.op = "detect_gap_anomalies" -> Len(c.opens)

IsDetectOrAll == IsDetect \/ call.op = "detect_all"

AnomalyTypes == {"price_spike", "volume_spike", "volatility_explosion", "gap_anomaly"}

\* C12: for every input with fewer than lookback + 1 samples each of the four
\* detectors and detect_all returns an empty list; for series of any length the
\* result is a list (of anomalies of the detector's types).
C12_ShortSeriesGiveEmptyList ==
    IsDetectOrAll =>
        /\ SamplesOf(call) < call.config.lookback_period + 1 => call.result = <<>>
        /\ DOMAIN call.result = 1..Len(call.result)
        /\ \A k \in 1..Len(call.result) : call.result[k].anomaly_type \in AnomalyTypes

\* detect_all on a series one sample short of the minimum, made of bars that
\* are flagged once enough history precedes them
C12_Witness ==
    /\ call.op = "detect_all"
    /\ SamplesOf(call) = call.config.lookback_period
    /\ call.volumes = <<1, 2, 11>>
    /\ call.result = <<>>

\* the analyze call of the two running calls has returned
AnalyzeDone == InProgress /\ call.analyze.pc = "done"

\* analyze with the same arguments, run alone on the detector as it was when the
\* two calls started
AnalyzeAlone ==
    AnalyzeResult(config, call.before, call.analyze.social, call.analyze.market,
                  call.analyze.historical_social)

\* C15: for distinct symbols A and B, whatever the interleaving of the steps of
\* update_baseline(A, ...) with analyze for B, analyze returns what it returns
\* when run alone.
C15_IndependentSymbolsDoNotInterfere ==
    (AnalyzeDone /\ call.update.symbol # call.analyze.social.symbol) =>
        call.analyze.result = Some(AnalyzeAlone)

\* analyze for B, which has a cached baseline, returned an alert between the two
\* stores of update_baseline(A), which changes the entry of A
C15_Witness ==
    /\ AnalyzeDone
    /\ call.update.symbol # call.analyze.social.symbol
    /\ call.update.pc = "store_volume"
    /\ call.analyze.historical_social = None
    /\ call.analyze.social.symbol \in DOMAIN call.before
    /\ call.update.symbol \in DOMAIN call.before
    /\ call.before[call.update.symbol] # social_baselines[call.update.symbol]
    /\ call.analyze.result[1].alert # None

\* on the same symbol the two calls do interfere: analyze read the new entry
SameSymbolInterferes ==
    /\ AnalyzeDone
    /\ call.update.symbol = call.analyze.social.symbol
    /\ call.analyze.result # Some(AnalyzeAlone)

IsQuery == call # Idle /\ call.op \in {"predict", "score_samples"}

\* the detector was never fitted, or its last fit found no sklearn
NeverFittedOrNoSklearn == forest.last_fit \in {"never", "import_error"}

\* C16: while the IsolationForestDetector is unfit (never fitted, or its last fit
\* hit a missing sklearn), predict returns len(features) ones and score_samples
\* len(features) zeros, and neither raises.
C16_UnfitAnswersAllNormal ==
    (IsQuery /\ NeverFittedOrNoSklearn) =>
        /\ ~call.raised
        /\ call.op = "predict" => call.result = Some(Constant(call.samples, 1))
        /\ call.op = "score_samples" =>
               call.result = Some(Constant(call.samples, RInt(0)))

\* predict on three rows after a successful fit followed by a fit that found no
\* sklearn: the trained estimator is still there, and is not asked
C16_Witness ==
    /\ IsQuery
    /\ call.op = "predict"
    /\ forest.last_fit = "import_error"
    /\ forest.model = Some([trained |-> TRUE])
    /\ call.samples = 3
    /\ call.result = Some(<<1, 1, 1>>)

IsCheckText == call # Idle /\ call.op = "check_text_for_pump"

\* kw, spelled in lower case, is read at some position of the text when case is
\* ignored
Occurs(kw, text) ==
    \E i \in 1..Len(text) :
        /\ i + Len(kw) - 1 <= Len(text)
        /\ \A k \in 1..Len(kw) :
               LowerChar(SubSeq(text, i + k - 1, i + k - 1)) = SubSeq(kw, k, k)

OccurringKeywords(text) == {kw \in PUMP_KEYWORDS : Occurs(kw, text)}

\* C17: check_text_for_pump(text) answers true exactly when at least 2 entries of
\* the pump-keyword set occur in the lower-cased text, and its list holds exactly
\* the entries that occur, once each; the answer is a function of the text.
C17_TrueIffTwoKeywordsOccur ==
    IsCheckText =>
        LET occurring == OccurringKeywords(call.text)
        IN  /\ call.result[1] <=> Cardinality(occurring) >= 2
            /\ {call.result[2][k] : k \in 1..Len(call.result[2])} = occurring
            /\ Len(call.result[2]) = Cardinality(occurring)

\* a text in mixed case holding the two entries "moon" and "rocket", on a
\* detector whose baseline cache is not empty
C17_Witness ==
    /\ IsCheckText
    /\ call.text = "MOONRocket "
    /\ call.result = <<TRUE, <<"rocket", "moon">> >>
    /\ DOMAIN social_baselines # {}

\* similarity = max(0, 1 - dtw_distance / (2 L))
SimilarityIsOf(match, L) ==
    IF match.dtw_distance = Inf THEN match.similarity = RInt(0)
    ELSE LET s == RSub(RInt(1), RDiv(match.dtw_distance, RInt(2 * L)))
         IN  match.similarity = IF RLt(s, RInt(0)) THEN RInt(0) ELSE s

WellFormedMatch(match, n) ==
    LET L == match.end_idx - match.start_idx
    IN  /\ RLe(matcher.similarity_threshold, match.similarity)
        /\ RLe(match.similarity, RInt(1))
        /\ match.dtw_distance = Inf \/ RLe(RInt(0), match.dtw_distance)
        /\ SimilarityIsOf(match, L)
        /\ \E k \in 1..Len(matcher.window_sizes) : matcher.window_sizes[k] = L
        /\ L <= n
        /\ 0 <= match.start_idx
        /\ match.start_idx < match.end_idx
        /\ match.end_idx <= n
        /\ match.start_idx % (IF L \div 4 > 1 THEN L \div 4 ELSE 1) = 0

\* C18: every PatternMatch returned by find_patterns(prices) has
\* similarity_threshold <= similarity <= 1, dtw_distance >= 0,
\* similarity = max(0, 1 - dtw_distance / (2 L)) for L = end_idx - start_idx,
\* L one of the configured window sizes with L <= len(prices),
\* 0 <= start_idx < end_idx <= len(prices), and start_idx a multiple of the
\* stride max(1, L div 4).
C18_MatchesAreWellFormed ==
    IsFind =>
        \A k \in 1..Len(call.result) : WellFormedMatch(call.result[k], Len(call.prices))

\* a match of a window of 8 points that starts at offset 2, the second position
\* of its stride, kept at a threshold above 0
C18_Witness ==
    /\ IsFind
    /\ RLt(RInt(0), matcher.similarity_threshold)
    /\ \E k \in 1..Len(call.result) :
          /\ call.result[k].start_idx = 2
          /\ call.result[k].end_idx = 10
          /\ RLt(RInt(0), call.result[k].dtw_distance)

\* the fixed table, in hundredths
WeightTable ==
    [social_spike |-> 20, volume_spike |-> 25, price_spike |-> 20, new_accounts |-> 10,
     keyword_pattern |-> 15, coordinated_posts |-> 10]

\* the sum over the first n signals of confidence times weight, and of the weights
RECURSIVE ConfidenceTimesWeight(_, _)
ConfidenceTimesWeight(signals, n) ==
    IF n = 0 THEN RInt(0)
    ELSE RAdd(ConfidenceTimesWeight(signals, n - 1),
              RMul(signals[n].confidence, RInt(WeightTable[signals[n].signal_type])))

RECURSIVE WeightsPresent(_, _)
WeightsPresent(signals, n) ==
    IF n = 0 THEN 0
    ELSE WeightsPresent(signals, n - 1) + WeightTable[signals[n].signal_type]

\* the average of the fired signals' confidences, weighted by the table and
\* normalised by the weights present, times 0.70 with a legitimate keyword
Aggregate(signals, social) ==
    LET n == Len(signals)
        average == RDiv(ConfidenceTimesWeight(signals, n), RInt(WeightsPresent(signals, n)))
        legitimate == \E k \in 1..Len(social.keyword_flags) :
                          social.keyword_flags[k] \in LEGITIMATE_KEYWORDS
    IN  IF legitimate THEN RMul(average, Rat(70, 100)) ELSE average

\* C19: analyze returns an alert exactly when at least one signal fired and the
\* aggregate confidence (weighted average over the signals present, times 0.70
\* with a legitimate keyword) is at least min_confidence_threshold; the alert
\* carries that confidence and all the fired signals.
C19_AlertIffAggregateAtLeastThreshold ==
    (IsAnalyze /\ ~call.result.raised) =>
        LET signals == call.result.signals
            alert == call.result.alert
        IN  /\ alert # None <=>
                  /\ signals # <<>>
                  /\ RLe(config.min_confidence_threshold, Aggregate(signals, call.social))
            /\ alert # None =>
                  /\ alert[1].confidence = Aggregate(signals, call.social)
                  /\ alert[1].signals = signals

\* three signals fire with a legitimate keyword among the flags, and the
\* dampened aggregate still reaches the threshold
C19_Witness ==
    /\ IsAnalyze
    /\ ~call.result.raised
    /\ Len(call.result.signals) >= 3
    /\ LegitimateCount(call.social) > 0
    /\ call.result.alert # None
    /\ call.result.alert[1].confidence = Aggregate(call.result.signals, call.social)
    /\ RLt(call.result.alert[1].confidence, RInt(1))

\* signals fire and the aggregate stays below the threshold: no alert
SignalsButNoAlert ==
    /\ IsAnalyze
    /\ ~call.result.raised
    /\ call.result.signals # <<>>
    /\ call.result.alert = None

\* confidence >= p / 100, for a confidence n / d with d > 0
AtLeastPercent(confidence, p) == 100 * confidence[1] >= p * confidence[2]

\* the severity bucket of a confidence
Bucket(confidence) ==
    CASE AtLeastPercent(confidence, 90) -> "critical"
      [] AtLeastPercent(confidence, 75) /\ ~AtLeastPercent(confidence, 90) -> "high"
      [] AtLeastPercent(confidence, 60) /\ ~AtLeastPercent(confidence, 75) -> "medium"
      [] OTHER -> "low"

\* the fixed string of each severity
ActionOf(severity) ==
    CASE severity = "critical" -> "Avoid trading. Report to authorities if applicable."
      [] severity = "high" -> "Avoid buying. Wait for activity to normalize."
      [] severity = "medium" -> "Exercise caution. Do additional research."
      [] severity = "low" -> "Monitor situation. Normal trading with awareness."

HasAlert == IsAnalyze /\ ~call.result.raised /\ call.result.alert # None

LowSeverityManySignals ==
    /\ HasAlert
    /\ Len(call.result.signals) >= 4
    /\ call.result.alert[1].severity = "low"

SeverityReached(severity) == HasAlert /\ call.result.alert[1].severity = severity

CriticalReached == SeverityReached("critical")

MediumReached == SeverityReached("medium")

\* the least cost of a warping path from (1, 1) to (i, j) whose cells all have
\* j within w of i; Inf when there is none
RECURSIVE BandedCost(_, _, _, _, _)
BandedCost(seq1, seq2, w, i, j) ==
    IF i = 0 /\ j = 0 THEN RInt(0)
    ELSE IF i = 0 \/ j = 0 \/ i - j > w \/ j - i > w THEN Inf
    ELSE InfAdd(RAbs(RSub(seq1[i], seq2[j])),
                RMin(RMin(BandedCost(seq1, seq2, w, i - 1, j),
                          BandedCost(seq1, seq2, w, i, j - 1)),
                     BandedCost(seq1, seq2, w, i - 1, j - 1)))

\* the sum of the point-wise absolute differences of the first n points
RECURSIVE PointwiseSum(_, _, _)
PointwiseSum(seq1, seq2, n) ==
    IF n = 0 THEN RInt(0)
    ELSE RAdd(PointwiseSum(seq1, seq2, n - 1), RAbs(RSub(seq1[n], seq2[n])))

\* C21: with a window constraint w >= 0 supplied (w = 0 included), dtw_distance
\* is the least cost of a warping path inside the band i - w <= j <= i + w: it is
\* infinite when the lengths differ by more than w and, for w = 0 and equal
\* lengths, it is the sum of the point-wise absolute differences.
C21_BandedDistance ==
    (IsDtw /\ call.window # None) =>
        LET w == call.window[1]
            n == Len(call.seq1)
            m == Len(call.seq2)
        IN  /\ call.result = BandedCost(call.seq1, call.seq2, w, n, m)
            /\ (n - m > w \/ m - n > w) => call.result = Inf
            /\ (w = 0 /\ n = m) => call.result = PointwiseSum(call.seq1, call.seq2, n)

\* the same statement for the windows the code takes as a constraint (w >= 1)
BandedDistancePositiveWindow ==
    (IsDtw /\ call.window # None /\ call.window[1] >= 1) =>
        LET w == call.window[1]
            n == Len(call.seq1)
            m == Len(call.seq2)
        IN  /\ call.result = BandedCost(call.seq1, call.seq2, w, n, m)
            /\ (n - m > w \/ m - n > w) => call.result = Inf

Span(a) == a.end_idx - a.start_idx

\* the overlap of a and b is more than 50% of the span of a
OverlapsMoreThanHalfOf(a, b) == RangesIntersect(a, b) /\ 2 * OverlapLength(a, b) > Span(a)

\* C22 as claimed: in the output of _deduplicate_matches no two retained matches
\* overlap by more than 50% of the span of either of them.
C22_NoOverlapOfEither ==
    IsDedup =>
        \A p, q \in 1..Len(call.result) :
            p # q => ~OverlapsMoreThanHalfOf(call.result[p], call.result[q])

\* C22 amended: a retained match overlaps no match retained before it (one of
\* similarity at least its own) by more than 50% of its own span, so no two
\* retained matches overlap by more than 50% of the span of both.
C22_NoOverlapOfOwnSpan ==
    IsDedup =>
        \A p, q \in 1..Len(call.result) :
            /\ p < q => ~OverlapsMoreThanHalfOf(call.result[q], call.result[p])
            /\ p < q => ~RLt(call.result[p].similarity, call.result[q].similarity)
            /\ p # q => ~MutualOverlap(call.result[p], call.result[q])

\* a short match and a longer, lower-scored one around it are both retained
C22_Witness ==
    /\ IsDedup
    /\ Len(call.result) = 2
    /\ Span(call.result[1]) = 4
    /\ Span(call.result[2]) = 8
    /\ OverlapsMoreThanHalfOf(call.result[1], call.result[2])
    /\ ~OverlapsMoreThanHalfOf(call.result[2], call.result[1])

IsDetectAll == call.op = "detect_all"

\* the four detectors' outputs on the arguments of a detect_all call, in the
\* order price, volume, volatility, gap
FourOutputs(c) ==
    DetectPriceAnomalies(c.config, c.prices)
        \o DetectVolumeAnomalies(c.config, c.volumes)
        \o DetectVolatilityAnomalies(c.config, c.highs, c.lows, c.prices)
        \o DetectGapAnomalies(c.config, c.opens, c.prices)

\* severity >= min_severity for a min_severity above 0
Reportable(a, min_severity) ==
    a.severity.sign > 0 /\ RLe(Square(min_severity), a.severity.squared)

\* the elements of seq from the k-th on that are reportable
RECURSIVE Restricted(_, _, _)
Restricted(seq, k, min_severity) ==
    IF k > Len(seq) THEN <<>>
    ELSE IF Reportable(seq[k], min_severity)
         THEN <<seq[k]>> \o Restricted(seq, k + 1, min_severity)
         ELSE Restricted(seq, k + 1, min_severity)

ScaleOf(anomaly_type) ==
    CASE anomaly_type = "price_spike" -> 5
      [] anomaly_type = "volume_spike" -> 8
      [] anomaly_type = "volatility_explosion" -> 6
      [] anomaly_type = "gap_anomaly" -> 5

\* severity = min(|z| / scale, 1), on the squares
SeverityIsOfZ(a) ==
    LET ratio == RDiv(a.z_score.squared, RInt(ScaleOf(a.anomaly_type) * ScaleOf(a.anomaly_type)))
    IN  /\ a.severity.sign >= 0
        /\ a.severity.squared = IF RLt(RInt(1), ratio) THEN RInt(1) ELSE ratio

\* C23: detect_all returns the concatenation, in the order price, volume,
\* volatility, gap, of the four detectors' outputs restricted to the anomalies of
\* severity >= min_severity; every returned anomaly has one of the four types and
\* min_severity <= severity <= 1 with severity = min(|z| / scale, 1), scale 5, 8,
\* 6, 5.
C23_DetectAllIsFilteredConcatenation ==
    IsDetectAll =>
        /\ call.result = Restricted(FourOutputs(call), 1, call.config.min_severity)
        /\ \A k \in 1..Len(call.result) :
              /\ call.result[k].anomaly_type \in AnomalyTypes
              /\ Reportable(call.result[k], call.config.min_severity)
              /\ RLe(call.result[k].severity.squared, RInt(1))
              /\ SeverityIsOfZ(call.result[k])

\* detect_all returned anomalies of two types, and left out one that a detector
\* reported with a severity below min_severity
C23_Witness ==
    /\ IsDetectAll
    /\ Len(call.result) >= 2
    /\ call.result[1].anomaly_type # call.result[Len(call.result)].anomaly_type
    /\ Len(call.result) < Len(FourOutputs(call))
    /\ \E k \in 1..Len(call.result) : RLt(call.result[k].severity.squared, RInt(1))

\* the detector of call c run on the first k samples of its series
OutputOnPrefix(c, k) ==
    CASE c.op = "detect_price_anomalies" ->
            DetectPriceAnomalies(c.config, SubSeq(c.prices, 1, k))
      [] c.op = "detect_volume_anomalies" ->
            DetectVolumeAnomalies(c.config, SubSeq(c.volumes, 1, k))
      [] c.op = "detect_volatility_anomalies" ->
            DetectVolatilityAnomalies(c.config, SubSeq(c.highs, 1, k),
                                      SubSeq(c.lows, 1, k), SubSeq(c.closes, 1, k))
      [] c.op = "detect_gap_anomalies" ->
            DetectGapAnomalies(c.config, SubSeq(c.opens, 1, k), SubSeq(c.closes, 1, k))

IsPrefixOf(short, long) ==
    Len(short) <= Len(long) /\ short = SubSeq(long, 1, Len(short))

\* the loop of call c's detector run on a metric series, from lookback_period on
LoopOn(c, metric) ==
    CASE c.op = "detect_price_anomalies" ->
            PriceLoop(c.config, metric, c.config.lookback_period)
      [] c.op = "detect_volume_anomalies" ->
            VolumeLoop(c.config, metric, c.config.lookback_period)
      [] c.op = "detect_volatility_anomalies" ->
            VolatilityLoop(c.config, metric, c.config.lookback_period)
      [] c.op = "detect_gap_anomalies" ->
            GapLoop(c.config, metric, c.config.lookback_period)

\* what the detector reports for the last value of a series made of the metric
\* values at [i - lookback, i] alone, relabelled as bar i
OutcomeFromWindowAlone(c, i) ==
    LET alone == LoopOn(c, SubSeq(MetricOf(c), i - c.config.lookback_period + 1, i + 1))
    IN  [k \in 1..Len(alone) |-> [alone[k] EXCEPT !.index = i]]

\* what the call reported for bar i
RECURSIVE ReportedFor(_, _, _)
ReportedFor(result, k, i) ==
    IF k > Len(result) THEN <<>>
    ELSE (IF result[k].index = i THEN <<result[k]>> ELSE <<>>)
         \o ReportedFor(result, k + 1, i)

\* C24: no look-ahead: what a detector reports for metric index i (decision,
\* z-score, severity) is what it reports from the metric values at
\* [i - lookback, i] alone, and its output for every prefix of a series is a
\* prefix of its output for the series.
C24_NoLookAhead ==
    IsDetect =>
        /\ \A i \in BarsOf(call) :
              ReportedFor(call.result, 1, i) = OutcomeFromWindowAlone(call, i)
        /\ \A k \in 0..SamplesOf(call) : IsPrefixOf(OutputOnPrefix(call, k), call.result)

\* an anomaly at a bar that is followed by a further bar: the series cut after
\* the anomalous bar gives the same report
C24_Witness ==
    /\ IsDetect
    /\ SamplesOf(call) = call.config.lookback_period + 2
    /\ call.result # <<>>
    /\ call.result[1].index = call.config.lookback_period
    /\ OutputOnPrefix(call, SamplesOf(call) - 1) = call.result
    /\ OutputOnPrefix(call, SamplesOf(call) - 2) = <<>>

(***************************************************************************)
(* C25: the message of an alert                                            *)
(***************************************************************************)
\* the positions of three signals none of which has a lower confidence than a
\* signal left out
ThreeHighest(signals) ==
    { I \in SUBSET (1..Len(signals)) :
        /\ Cardinality(I) = 3
        /\ \A i \in I : \A j \in (1..Len(signals)) \ I :
              RLe(signals[j].confidence, signals[i].confidence) }

SummariesOf(alert) == { alert.message.summaries[k] : k \in 1..Len(alert.message.summaries) }

\* C25: the message of every alert analyze returns holds exactly
\* min(3, number of fired signals) evidence strings, and when more than three
\* signals fire they are those of the three highest-confidence signals.
C25_MessageOfThreeHighest ==
    HasAlert =>
        LET alert == call.result.alert[1]
            signals == call.result.signals
        IN  /\ Len(alert.message.summaries) = (IF Len(signals) < 3 THEN Len(signals) ELSE 3)
            /\ Len(signals) > 3 =>
                  \E I \in ThreeHighest(signals) :
                      SummariesOf(alert) = { Evidence(signals[i]) : i \in I }

\* the message holds the evidence of the first three signals in the order
\* social, volume, price, new accounts, keywords, coordinated posts
MessageOfFirstThree ==
    HasAlert =>
        LET alert == call.result.alert[1]
            signals == call.result.signals
            n == IF Len(signals) < 3 THEN Len(signals) ELSE 3
        IN  /\ alert.message.symbol = alert.symbol
            /\ alert.message.severity = alert.severity
            /\ alert.message.summaries = [k \in 1..n |-> Evidence(signals[k])]

\* an alert of more than three signals one of whose first three has a lower
\* confidence than a later one
LaterSignalIsStronger ==
    /\ HasAlert
    /\ Len(call.result.signals) > 3
    /\ \E i \in 1..3, j \in 4..Len(call.result.signals) :
          RLt(call.result.signals[i].confidence, call.result.signals[j].confidence)

(***************************************************************************)
(* C26: the baseline cache changes only through update_baseline            *)
(***************************************************************************)
\* the entries of dictionary d are those of dictionary e, but for the key k
SameButFor(d, e, k) ==
    /\ DOMAIN d \ {k} = DOMAIN e \ {k}
    /\ \A x \in DOMAIN d \ {k} : d[x] = e[x]

\* the step is a call of update_baseline
IsUpdateBaseline == Len(updates') = Len(updates) + 1

CacheFrame ==
    /\ ~IsUpdateBaseline =>
          /\ social_baselines' = social_baselines
          /\ volume_baselines' = volume_baselines
    /\ IsUpdateBaseline =>
          LET s == updates'[Len(updates')].symbol
          IN  /\ SameButFor(social_baselines', social_baselines, s)
              /\ SameButFor(volume_baselines', volume_baselines, s)
    /\ DOMAIN social_baselines \subseteq DOMAIN social_baselines'
    /\ DOMAIN volume_baselines \subseteq DOMAIN volume_baselines'

\* C26: analyze and check_text_for_pump leave both baseline maps unchanged,
\* update_baseline(s, ...) changes only the entries for s, and no step removes
\* an entry.
C26_CacheChangesOnlyThroughUpdateBaseline == [][CacheFrame]_vars

\* after an update for one symbol and then one for the other, and a call of
\* analyze or check_text_for_pump, the first symbol's entries are still those
\* of its update
C26_Witness ==
    /\ Len(updates) = 2
    /\ updates[1].symbol # updates[2].symbol
    /\ call.op \in {"analyze", "check_text_for_pump"}
    /\ DOMAIN social_baselines = Symbols
    /\ social_baselines[updates[1].symbol] = updates[1].social_avg
    /\ volume_baselines[updates[1].symbol] = updates[1].volume_avg

(***************************************************************************)
(* C27: the _fitted flag and the estimator                                 *)
(***************************************************************************)
\* C27: after any sequence of fit calls (trained, ImportError, or another
\* exception from the estimator) _fitted is true only if _model is an
\* estimator whose fit completed, so predict and score_samples never delegate
\* to an untrained estimator.
C27_FittedOnlyWithTrainedModel ==
    /\ forest.fitted => forest.model # None /\ forest.model[1].trained
    /\ IsQuery /\ ~Unfit(forest) => forest.model[1].trained

\* the same, for detectors none of whose fit calls raised in the estimator
FittedOnlyWithTrainedModelUnlessFitRaised ==
    forest.last_fit # "fit_error" =>
        (forest.fitted => forest.model # None /\ forest.model[1].trained)

\* a fit that raised in the estimator after an earlier fit that trained one
StaleFittedFlag ==
    /\ forest.last_fit = "fit_error"
    /\ forest.fitted
    /\ ~forest.model[1].trained

(***************************************************************************)
(* C28: an explicit historical_social and the cache                        *)
(***************************************************************************)
\* C28: whenever analyze is called with a historical_social that is not None
\* (any number, 0 included) that value is the baseline of the call; the cached
\* baseline of the symbol, or 10 without one, is the baseline only when
\* historical_social is None.
C28_ExplicitBaselineTakesPrecedence ==
    IsAnalyze =>
        call.result.baseline =
            (IF call.historical_social # None THEN call.historical_social[1]
             ELSE DictGet(social_baselines, call.social.symbol, DefaultBaseline))

\* the same, for every historical_social other than 0
NonZeroBaselineTakesPrecedence ==
    IsAnalyze /\ call.historical_social # Some(0) =>
        call.result.baseline =
            (IF call.historical_social # None THEN call.historical_social[1]
             ELSE DictGet(social_baselines, call.social.symbol, DefaultBaseline))

\* a call with historical_social = 0 that took the cached baseline
ZeroBaselineIgnored ==
    /\ IsAnalyze
    /\ call.historical_social = Some(0)
    /\ call.social.symbol \in DOMAIN social_baselines
    /\ call.result.baseline = social_baselines[call.social.symbol]
    /\ call.result.baseline # 0

(***************************************************************************)
(* C29: analyze and update_baseline for the same symbol                    *)
(***************************************************************************)
\* analyze with the same arguments, run alone after the concurrent
\* update_baseline has returned
AnalyzeAfterUpdate ==
    AnalyzeResult(config,
                  DictSet(call.before, call.update.symbol, call.update.social_avg),
                  call.analyze.social, call.analyze.market,
                  call.analyze.historical_social)

\* the social_spike signal of a result is the one computed from its baseline
SocialSignalFromOneBaseline(result) ==
    ~result.raised =>
        /\ HasSignal(result.signals, "social_spike")
              <=> SocialFires(config, call.analyze.social, result.baseline)
        /\ HasSignal(result.signals, "social_spike") =>
              SignalOf(result.signals, "social_spike").confidence
                  = SocialConfidence(call.analyze.social, result.baseline)

\* C29: whatever the interleaving of analyze with an update_baseline for the
\* same symbol, the social_spike signal of the call is computed from a single
\* baseline value, and the call returns what analyze returns when run alone
\* either before or after the update.
C29_AnalyzeIsSerialisable ==
    (AnalyzeDone /\ call.update.symbol = call.analyze.social.symbol) =>
        /\ call.analyze.result \in {Some(AnalyzeAlone), Some(AnalyzeAfterUpdate)}
        /\ SocialSignalFromOneBaseline(call.analyze.result[1])

\* analyze returned between the two stores of an update_baseline for its
\* symbol, with the alert it returns after the update and not before
C29_Witness ==
    /\ AnalyzeDone
    /\ call.update.symbol = call.analyze.social.symbol
    /\ call.update.pc = "store_volume"
    /\ call.analyze.historical_social = None
    /\ call.analyze.result = Some(AnalyzeAfterUpdate)
    /\ AnalyzeAfterUpdate # AnalyzeAlone
    /\ call.analyze.result[1].alert # None

(***************************************************************************)
(* C30: _deduplicate_matches is idempotent and order-stable                *)
(***************************************************************************)
IsDeduplicate == call.op = "_deduplicate_matches"

\* the ways of finding the elements of out at distinct positions of in
Placements(out, in) ==
    { pos \in [1..Len(out) -> 1..Len(in)] :
        /\ \A k \in 1..Len(out) : out[k] = in[pos[k]]
        /\ \A k, l \in 1..Len(out) : k # l => pos[k] # pos[l] }

\* out is made of elements of in, in non-increasing order of similarity, those
\* of equal similarity in their order in in
StableSubList(out, in) ==
    \E pos \in Placements(out, in) :
        \A k, l \in 1..Len(out) :
            k < l => \/ RLt(out[l].similarity, out[k].similarity)
                     \/ out[l].similarity = out[k].similarity /\ pos[k] < pos[l]

HasMaximum(out, in) ==
    \E k \in 1..Len(out) : \A i \in 1..Len(in) : RLe(in[i].similarity, out[k].similarity)

\* C30: the output of _deduplicate_matches is a sub-list of the input in
\* non-increasing order of similarity, equal similarities in input order; it
\* holds a maximum-similarity match of a non-empty input; and
\* _deduplicate_matches returns its own output unchanged.
C30_IdempotentAndStable ==
    IsDeduplicate =>
        /\ StableSubList(call.result, call.matches)
        /\ call.matches # <<>> => HasMaximum(call.result, call.matches)
        /\ DeduplicateMatches(call.result) = call.result

\* three matches given lowest first; the two of the highest similarity are both
\* retained, in their input order, and the third is dropped
C30_Witness ==
    /\ IsDeduplicate
    /\ Len(call.matches) = 3
    /\ Len(call.result) = 2
    /\ RLt(call.matches[1].similarity, call.matches[2].similarity)
    /\ call.result = <<call.matches[2], call.matches[3]>>
    /\ call.matches[2].similarity = call.matches[3].similarity
    /\ call.matches[2] # call.matches[3]

====
